---------------------------- MODULE Spec2Model ----------------------------
(***************************************************************************)
(* A model of the signal-synthesis engine of FH-Simulator:                 *)
(*   src/client/lib/pcg.ts        adult heart (PCG) pipeline               *)
(*   src/client/pages/NotFound.tsx fetal (fPCG) and lung pipelines         *)
(*   src/client/pages/Index.tsx   the genFhs* entry points                 *)
(*                                                                         *)
(* Numbers.  JavaScript numbers are modelled exactly as rationals          *)
(* [n |-> numerator, d |-> denominator > 0] in lowest terms, with the      *)
(* record NaN (d = 0) for NaN: the result of arithmetic on `undefined` and *)
(* of 0/0.                                                                 *)
(***************************************************************************)
EXTENDS Integers, Sequences, FiniteSets, TLC

VARIABLES
  rs,   \* one call of a resampler
  ev,   \* one call of generate_movement_artifacts or generate_uc_envelope
  ck,   \* one call of overlayCrackles
  snr,  \* one call of an SNR compositor
  gen,  \* two successive calls of a generator entry point
  nm,   \* one call of a function that ends with a peak normalisation
  rg,   \* the random sources alive in one invocation and their draws
  hp,   \* the arrays of the heap and one call of an engine function on them
  fl    \* one call of a filter

vars == <<rs, ev, ck, snr, gen, nm, rg, hp, fl>>

\* the value of a component a specification does not run
Idle == [pc |-> "idle"]

(***************************************************************************)
(* Arithmetic helpers                                                      *)
(***************************************************************************)
Abs(x) == IF x < 0 THEN -x ELSE x

Min(a, b) == IF a <= b THEN a ELSE b

Max(a, b) == IF a >= b THEN a ELSE b

\* Euclid's algorithm; the remainder is bound as a value (r \in {a % b}) so
\* that TLC evaluates it once per level also inside ENABLED
RECURSIVE Gcd(_, _)
Gcd(a, b) == IF b = 0 THEN a ELSE CHOOSE g \in {Gcd(b, r) : r \in {a % b}} : TRUE

NaN == [n |-> 0, d |-> 0]

\* Infinity
Inf == [n |-> 1, d |-> 0]

\* a finite number
IsNum(x) == x.d > 0

\* the rational n/d in lowest terms with a positive denominator; 0/0 is NaN
\* and x/0 is Infinity with the sign of x
Rat(n, d) ==
  IF d = 0 THEN [n |-> IF n > 0 THEN 1 ELSE IF n < 0 THEN 0 - 1 ELSE 0, d |-> 0]
  ELSE LET g == Gcd(Abs(n), Abs(d))
           s == IF d < 0 THEN -1 ELSE 1
       IN [n |-> (s * n) \div g, d |-> (s * d) \div g]

FromInt(k) == [n |-> k, d |-> 1]

\* The operands of the operations below are bound as values (x \in {a}), so
\* that TLC evaluates each operand once, also inside ENABLED.

\* a + b; an infinite operand absorbs a finite one, Infinity - Infinity and
\* NaN give NaN
RAdd(a, b) ==
  CHOOSE r \in {IF IsNum(x) /\ IsNum(y) THEN Rat(x.n * y.d + y.n * x.d, x.d * y.d)
                ELSE IF x = NaN \/ y = NaN THEN NaN
                ELSE IF IsNum(x) THEN y
                ELSE IF IsNum(y) \/ x = y THEN x
                ELSE NaN : x \in {a}, y \in {b}} : TRUE

RSub(a, b) ==
  CHOOSE r \in {IF IsNum(x) /\ IsNum(y) THEN Rat(x.n * y.d - y.n * x.d, x.d * y.d)
                ELSE NaN : x \in {a}, y \in {b}} : TRUE

RMul(a, b) ==
  CHOOSE r \in {IF IsNum(x) /\ IsNum(y) THEN Rat(x.n * y.n, x.d * y.d)
                ELSE NaN : x \in {a}, y \in {b}} : TRUE

RDiv(a, b) ==
  CHOOSE r \in {IF IsNum(x) /\ IsNum(y) THEN Rat(x.n * y.d, x.d * y.n)
                ELSE NaN : x \in {a}, y \in {b}} : TRUE

\* Math.floor of a finite number
RFloor(a) == CHOOSE r \in {x.n \div x.d : x \in {a}} : TRUE

\* a < b and a >= b on finite numbers and Infinity (false when either is NaN)
RLt(a, b) ==
  \E x \in {a}, y \in {b} :
    /\ x # NaN /\ y # NaN
    /\ IF IsNum(x) /\ IsNum(y) THEN x.n * y.d < y.n * x.d
       ELSE IF IsNum(x) THEN y.n > 0
       ELSE IF IsNum(y) THEN x.n < 0
       ELSE x.n < y.n

RGeq(a, b) == \E x \in {a}, y \in {b} : x # NaN /\ y # NaN /\ ~RLt(x, y)

\* y[i] of a JavaScript array used in arithmetic: an index outside the array
\* reads `undefined`, which arithmetic turns into NaN
Read(y, i) == IF i \in 0..(Len(y) - 1) THEN FromInt(y[i + 1]) ELSE NaN

\* y.slice(): a fresh array holding the same values
Slice(y) == [k \in 1..Len(y) |-> FromInt(y[k])]

(***************************************************************************)
(* Resamplers                                                              *)
(***************************************************************************)

\* new Array<number>(n): throws RangeError for a negative length
NewArrayThrows(n) == n < 0

\* the linear interpolation all three resamplers end with
\* (an index that is NaN reads `undefined`, so the sample is NaN)
Interpolate(y, idx, n) ==
  IF ~IsNum(idx) THEN NaN
  ELSE LET i0 == RFloor(idx)
           i1 == Min(n, i0 + 1)
           w  == RSub(idx, FromInt(i0))
       IN RAdd(RMul(Read(y, i0), RSub(FromInt(1), w)), RMul(Read(y, i1), w))

\* pcg.ts resampleToLength, body of the loop for output index i
PcgResampleSample(y, targetLength, i) ==
  LET n   == Len(y) - 1
      idx == RDiv(FromInt(i * n), FromInt(Max(1, targetLength - 1)))
  IN Interpolate(y, idx, n)

\* fetal resampleToLength, body of the loop for output index i
FpcgResampleSample(xs, ys, targetLen, i) ==
  LET tMin == Read(xs, 0)
      tMax == Read(xs, Len(xs) - 1)
      t    == RAdd(tMin, RDiv(RMul(RSub(tMax, tMin), FromInt(i)),
                              FromInt(Max(1, targetLen - 1))))
      u    == RDiv(RSub(t, tMin), RSub(tMax, tMin))
      idx  == RMul(u, FromInt(Len(ys) - 1))
  IN Interpolate(ys, idx, Len(ys) - 1)

\* lung resampleTo, body of the loop for output index i
LungResampleSample(y, count, i) ==
  LET n   == Len(y) - 1
      idx == RDiv(FromInt(i * n), FromInt(Max(1, count - 1)))
  IN Interpolate(y, idx, n)


\* an empty slot of `new Array(n)`
Hole == [n |-> 0, d |-> 0 - 1]

NewArray(n) == [k \in 1..n |-> Hole]

\* out[i] = v: a write at or past the end extends the array
ArrSet(arr, i, v) ==
  [k \in 1..Max(Len(arr), i + 1) |->
     IF k = i + 1 THEN v ELSE IF k <= Len(arr) THEN arr[k] ELSE Hole]

\* `if (y.length === targetLength) return y.slice();`
SameLengthNever(y, targetLength) == FALSE

SameLength(y, targetLength) == Len(y) = targetLength

\* the output buffer each resampler allocates before its loop
ResampleAllocBySource(y, targetLength) == NewArray(Len(y))

ResampleAlloc(y, targetLength) == NewArray(targetLength)

\* linspace(start, end, n) on integer ticks: the time axis handed to the
\* fetal resampler, n samples at a spacing of TStep ticks
TStep == 5

TimeAxis(n) == [k \in 1..n |-> (k - 1) * TStep]

ResampleSample(impl, xs, ys, target, i) ==
  CASE impl = "pcg"  -> PcgResampleSample(ys, target, i)
    [] impl = "fpcg" -> FpcgResampleSample(xs, ys, target, i)
    [] impl = "lung" -> LungResampleSample(ys, target, i)

(***************************************************************************)
(* Bounds of the resampler specification                                   *)
(***************************************************************************)
MaxLen == 3

MaxTarget == 4

NegTargets == 1

SampleVals == {-3, 0, 2}

Impls == {"pcg", "fpcg", "lung"}

SeqsUpTo(S, n) == UNION {[1..k -> S] : k \in 0..n}

(***************************************************************************)
(* The resampler as a state machine: one call of one implementation.       *)
(* rs.pc: "call" on entry, "loop" inside the for loop, "done" after the    *)
(* return, "threw" when the call ended in a RangeError.                    *)
(***************************************************************************)
InitResample ==
  /\ ev = Idle
  /\ ck = Idle
  /\ snr = Idle
  /\ gen = Idle
  /\ nm = Idle
  /\ rg = Idle
  /\ hp = Idle
  /\ fl = Idle
  /\ rs \in [impl : Impls, ys : SeqsUpTo(SampleVals, MaxLen),
             target : (0 - NegTargets)..MaxTarget,
             pc : {"call"}, i : {0}, out : {<<>>}]

\* the early returns and the allocation
ResampleCall ==
  /\ rs.pc = "call"
  /\ rs' =
       IF SameLength(rs.ys, rs.target)
       THEN [rs EXCEPT !.pc = "done", !.out = Slice(rs.ys)]
       ELSE IF rs.impl = "pcg" /\ rs.target <= 0
       THEN [rs EXCEPT !.pc = "done", !.out = <<>>]
       ELSE IF NewArrayThrows(rs.target)
       THEN [rs EXCEPT !.pc = "threw"]
       ELSE [rs EXCEPT !.pc = "loop", !.out = ResampleAlloc(rs.ys, rs.target)]
  /\ UNCHANGED <<ev, ck, snr, gen, nm, rg, hp, fl>>

\* one iteration of `for (let i = 0; i < targetLength; i++)`
ResampleStep ==
  /\ rs.pc = "loop"
  /\ rs.i < rs.target
  /\ rs' = [rs EXCEPT
              !.out = ArrSet(rs.out, rs.i,
                             ResampleSample(rs.impl, TimeAxis(Len(rs.ys)), rs.ys, rs.target, rs.i)),
              !.i = rs.i + 1]
  /\ UNCHANGED <<ev, ck, snr, gen, nm, rg, hp, fl>>

\* `return out;`
ResampleReturn ==
  /\ rs.pc = "loop"
  /\ rs.i >= rs.target
  /\ rs' = [rs EXCEPT !.pc = "done"]
  /\ UNCHANGED <<ev, ck, snr, gen, nm, rg, hp, fl>>

NextResample == ResampleCall \/ ResampleStep \/ ResampleReturn

SpecResample == InitResample /\ [][NextResample]_vars

(***************************************************************************)
(* Claims about the resamplers                                             *)
(***************************************************************************)

\* C2: for every pointCount >= 1 and every source waveform the resampled
\* result has exactly pointCount elements, in all three resamplers (and the
\* call returns rather than throws).
C2_ResampleLength ==
  rs.target >= 1 =>
    /\ rs.pc # "threw"
    /\ rs.pc = "done" => Len(rs.out) = rs.target

\* C2 witness: an interpolating call (source length differs from the
\* target) of the fetal resampler has returned pointCount elements.
C2_Witness ==
  /\ rs.pc = "done" /\ rs.impl = "fpcg"
  /\ rs.target >= 2 /\ Len(rs.ys) > rs.target
  /\ Len(rs.out) = rs.target

\* C4: resampling a waveform of length L to length L returns every source
\* value unchanged, for every L >= 0, in all three resamplers.
C4_ResampleIdentity ==
  (rs.pc = "done" /\ Len(rs.ys) = rs.target) =>
    /\ Len(rs.out) = Len(rs.ys)
    /\ \A k \in 1..Len(rs.ys) : rs.out[k] = FromInt(rs.ys[k])

\* C4 witness: a same-length call on a waveform of several distinct samples
\* has returned.
C4_Witness ==
  /\ rs.pc = "done" /\ Len(rs.ys) = rs.target /\ rs.target >= 2
  /\ rs.ys[1] # rs.ys[2]
  /\ rs.out[2] = FromInt(rs.ys[2])

\* C8 (as claimed): no resampler call on a generated (non-empty) waveform
\* ends in a raised error, for every integer pointCount including 0 and
\* negative values.
C8_NoThrow == Len(rs.ys) >= 1 => rs.pc # "threw"

(***************************************************************************)
(* Random draws.  A call of rand() returns a uniform value in [0,1); the   *)
(* model draws it from the ULevels values k/ULevels, 0 included (a 32-bit  *)
(* Mulberry32 output of 0, or Math.random() returning 0).                  *)
(***************************************************************************)
ULevels == 4

U == {Rat(k, ULevels) : k \in 0..(ULevels - 1)}

Zero == FromInt(0)

\* a + rand() * (b - a), as in `duration_range[0] + rand() * (...)`, lerp and lerpRand
Lerp(a, b, u) == RAdd(a, RMul(u, RSub(b, a)))

\* -Math.log(1 - u) for 0 <= u < 1, by the first terms of its series
\* u + u^2/2 + u^3/3: 0 at u = 0, positive and increasing on (0,1)
NegLog1m(u) ==
  RAdd(u, RAdd(RDiv(RMul(u, u), FromInt(2)), RDiv(RMul(u, RMul(u, u)), FromInt(3))))

(***************************************************************************)
(* Poisson arrivals and event windows:                                     *)
(* generate_movement_artifacts and generate_uc_envelope                    *)
(***************************************************************************)
\* fs = 1000 in simulateFpcgDataset
FsFetal == 1000

\* `if (e_idx - s_idx < 4) continue;` and `if (L < 8) continue;`
MinMovementLen == 4

MinUcLen == 8

\* seconds per rate unit: rate_per_min / 60.0 and rate_per_10min / 600.0
RateUnit(fn) == IF fn = "movement" THEN 60 ELSE 600

Lam(fn, rate) == Rat(rate, RateUnit(fn))

\* `const gap = lam > 0 ? -Math.log(1 - rand()) / lam : Infinity;`
ArrivalGap(lam, u) == IF RLt(Zero, lam) THEN RDiv(NegLog1m(u), lam) ELSE Inf

\* `t += gap;`
NextArrivalReset(t, gap) == gap

NextArrival(t, gap) == RAdd(t, gap)

\* `const total_sec = total_len / fs;`
TotalSec(total_len) == Rat(total_len, FsFetal)

\* `const s_idx = Math.floor(st * fs);`
StartIdx(st) == RFloor(RMul(st, FromInt(FsFetal)))

\* `const e_idx = Math.min(total_len, s_idx + Math.max(1, Math.floor(dur * fs)));`
EventEndNoClip(total_len, s_idx, dur) ==
  s_idx + Max(1, RFloor(RMul(dur, FromInt(FsFetal))))

EventEnd(total_len, s_idx, dur) ==
  Min(total_len, s_idx + Max(1, RFloor(RMul(dur, FromInt(FsFetal)))))

\* Lr, Lf, Lp and the recorded peak of a contraction of L samples
UcLr(frac, L) == Max(2, RFloor(RMul(frac[1], FromInt(L))))

UcLf(frac, L) == Max(2, RFloor(RMul(frac[2], FromInt(L))))

UcLp(frac, L) == Max(0, L - UcLr(frac, L) - UcLf(frac, L))

UcPeak(frac, s_idx, L) == s_idx + UcLr(frac, L) + (Max(0, UcLp(frac, L) - 1) \div 2)

(***************************************************************************)
(* Bounds and inputs of the event specification                            *)
(***************************************************************************)
\* at most this many draws of one arrival loop are exactly 0
MaxZeroDraws == 1

\* total_len, rate and duration_range per generator; the rates and ranges
\* are those of genFhs* and the defaults, plus non-positive rates and
\* degenerate ranges
EvConfigs ==
  [fn : {"movement"}, total_len : {0, 1435, 1500, 4000},
   rate : {0 - 3, 0, 4, 12},
   dur_range : {<<Rat(12, 100), Rat(45, 100)>>, <<Rat(0 - 1, 1), Zero>>},
   frac : {<<Zero, Zero>>}]
  \cup
  [fn : {"uc"}, total_len : {0, 28650, 30000, 60000},
   rate : {0 - 3, 0, 1, 6},
   dur_range : {<<FromInt(10), FromInt(20)>>, <<Rat(0 - 1, 1), Zero>>},
   frac : {<<Rat(35, 100), Rat(35, 100)>>, <<Rat(70, 100), Rat(60, 100)>>,
           <<FromInt(1), Zero>>}]

\* ev.pc: "arrivals" in the `while (true)` loop, "render" in the loop over
\* starts, "done" after it.  ev.iters counts the iterations of the arrival
\* loop, ev.zeros its draws of exactly 0.  ev.writes lists, per rendered
\* event, the first and last index written in movement / uc_env; ev.raw the
\* end of each rendered event before it was clipped to total_len.
InitEvents ==
  /\ rs = Idle
  /\ ck = Idle
  /\ snr = Idle
  /\ gen = Idle
  /\ nm = Idle
  /\ rg = Idle
  /\ hp = Idle
  /\ fl = Idle
  /\ \E c \in EvConfigs :
       ev = [fn |-> c.fn, total_len |-> c.total_len, rate |-> c.rate,
             dur_range |-> c.dur_range, frac |-> c.frac,
             pc |-> "arrivals", t |-> Zero, iters |-> 0, zeros |-> 0,
             starts |-> <<>>, k |-> 1, events |-> <<>>, writes |-> <<>>,
             raw |-> <<>>]

\* the draws an arrival iteration may make: none when lam <= 0
ArrivalDraws ==
  IF RLt(Zero, Lam(ev.fn, ev.rate))
  THEN {u \in U : u = Zero => ev.zeros < MaxZeroDraws}
  ELSE {Zero}

ArrivalAfter(u) == NextArrival(ev.t, ArrivalGap(Lam(ev.fn, ev.rate), u))

CountZero(u) == IF RLt(Zero, Lam(ev.fn, ev.rate)) /\ u = Zero THEN 1 ELSE 0

\* an iteration of the arrival loop that ends in `starts.push(t)`
ArrivalPush ==
  /\ ev.pc = "arrivals"
  /\ \E u \in ArrivalDraws :
       /\ ~RGeq(ArrivalAfter(u), TotalSec(ev.total_len))
       /\ ev' = [ev EXCEPT !.t = ArrivalAfter(u),
                           !.starts = Append(ev.starts, ArrivalAfter(u)),
                           !.iters = ev.iters + 1,
                           !.zeros = ev.zeros + CountZero(u)]
  /\ UNCHANGED <<rs, ck, snr, gen, nm, rg, hp, fl>>

\* the iteration that ends in `if (t >= total_sec) break;`
ArrivalBreak ==
  /\ ev.pc = "arrivals"
  /\ \E u \in ArrivalDraws :
       /\ RGeq(ArrivalAfter(u), TotalSec(ev.total_len))
       /\ ev' = [ev EXCEPT !.t = ArrivalAfter(u), !.pc = "render",
                           !.iters = ev.iters + 1,
                           !.zeros = ev.zeros + CountZero(u)]
  /\ UNCHANGED <<rs, ck, snr, gen, nm, rg, hp, fl>>

EvMinLen == IF ev.fn = "movement" THEN MinMovementLen ELSE MinUcLen

EvStart == StartIdx(ev.starts[ev.k])

EvEnd(u) == EventEnd(ev.total_len, EvStart, Lerp(ev.dur_range[1], ev.dur_range[2], u))

EvRaw(u) == EventEndNoClip(ev.total_len, EvStart, Lerp(ev.dur_range[1], ev.dur_range[2], u))

\* an iteration of `for (const st of starts)` that ends in `continue`
RenderSkip ==
  /\ ev.pc = "render" /\ ev.k <= Len(ev.starts)
  /\ \E u \in U :
       /\ EvEnd(u) - EvStart < EvMinLen
       /\ ev' = [ev EXCEPT !.k = ev.k + 1]
  /\ UNCHANGED <<rs, ck, snr, gen, nm, rg, hp, fl>>

\* an iteration that adds a movement burst to movement[s_idx .. e_idx-1]
RenderMovement ==
  /\ ev.pc = "render" /\ ev.k <= Len(ev.starts) /\ ev.fn = "movement"
  /\ \E u \in U :
       /\ ~(EvEnd(u) - EvStart < EvMinLen)
       /\ ev' = [ev EXCEPT !.k = ev.k + 1,
                           !.events = Append(ev.events, <<EvStart, EvEnd(u)>>),
                           !.writes = Append(ev.writes, <<EvStart, EvEnd(u) - 1>>),
                           !.raw = Append(ev.raw, EvRaw(u))]
  /\ UNCHANGED <<rs, ck, snr, gen, nm, rg, hp, fl>>

\* an iteration that writes a contraction into uc_env[s_idx .. e_idx-1]
RenderUc ==
  /\ ev.pc = "render" /\ ev.k <= Len(ev.starts) /\ ev.fn = "uc"
  /\ \E u \in U :
       /\ ~(EvEnd(u) - EvStart < EvMinLen)
       /\ ev' = [ev EXCEPT !.k = ev.k + 1,
                           !.events = Append(ev.events,
                              [start |-> EvStart, end |-> EvEnd(u),
                               peak |-> UcPeak(ev.frac, EvStart, EvEnd(u) - EvStart)]),
                           !.writes = Append(ev.writes, <<EvStart, EvEnd(u) - 1>>),
                           !.raw = Append(ev.raw, EvRaw(u))]
  /\ UNCHANGED <<rs, ck, snr, gen, nm, rg, hp, fl>>

\* the loop over starts is exhausted
RenderDone ==
  /\ ev.pc = "render" /\ ev.k > Len(ev.starts)
  /\ ev' = [ev EXCEPT !.pc = "done"]
  /\ UNCHANGED <<rs, ck, snr, gen, nm, rg, hp, fl>>

NextEvents ==
  ArrivalPush \/ ArrivalBreak \/ RenderSkip \/ RenderMovement \/ RenderUc \/ RenderDone

SpecEvents == InitEvents /\ [][NextEvents]_vars

EvS(e) == IF ev.fn = "movement" THEN e[1] ELSE e.start

EvE(e) == IF ev.fn = "movement" THEN e[2] ELSE e.end

(***************************************************************************)
(* Claims about the event lists                                            *)
(***************************************************************************)

\* C5: in every event list of generate_movement_artifacts and
\* generate_uc_envelope each event has end > start, and consecutive events
\* have non-decreasing starts.
C5_EventOrder ==
  ev.pc # "idle" =>
    /\ \A j \in 1..Len(ev.events) : EvE(ev.events[j]) > EvS(ev.events[j])
    /\ \A j \in 1..(Len(ev.events) - 1) :
         EvS(ev.events[j + 1]) >= EvS(ev.events[j])

\* C5 witness: a finished call returned two events with different starts.
C5_Witness ==
  /\ ev.pc = "done" /\ Len(ev.events) >= 2
  /\ EvS(ev.events[2]) > EvS(ev.events[1])
  /\ EvE(ev.events[2]) > EvS(ev.events[2])

\* C14 (as claimed): the arrival times the scheduler pushes are strictly
\* increasing for every sequence of draws u in [0,1), u = 0 included: every
\* gap -ln(1-u)/lambda is strictly positive, so each start time exceeds the
\* one before it and the first exceeds 0.
C14_StrictArrivals ==
  ev.pc # "idle" =>
    /\ \A j \in 1..Len(ev.starts) : RLt(Zero, ev.starts[j])
    /\ \A j \in 1..(Len(ev.starts) - 1) : RLt(ev.starts[j], ev.starts[j + 1])

\* C6: every event window lies inside the waveform, 0 <= start < end <=
\* total_len, and every index written into movement / uc_env while rendering
\* an event is in [0, total_len).
C6_EventBounds ==
  ev.pc # "idle" =>
    /\ \A j \in 1..Len(ev.events) :
         /\ 0 <= EvS(ev.events[j])
         /\ EvS(ev.events[j]) < EvE(ev.events[j])
         /\ EvE(ev.events[j]) <= ev.total_len
    /\ \A j \in 1..Len(ev.writes) :
         0 <= ev.writes[j][1] /\ ev.writes[j][2] < ev.total_len

\* C6 witness: a rendered event whose drawn duration ran past the end of the
\* waveform was clipped to total_len.
C6_Witness ==
  /\ ev.pc = "done" /\ Len(ev.events) >= 1
  /\ \E j \in 1..Len(ev.events) :
       /\ ev.raw[j] > ev.total_len
       /\ EvE(ev.events[j]) = ev.total_len
       /\ ev.writes[j][2] = ev.total_len - 1

(***************************************************************************)
(* The crackle placement loop of overlayCrackles                           *)
(***************************************************************************)
\* `const fs = 1000;` of the lung entry points
FsLung == 1000

\* Math.round of a finite number
Round(a) == RFloor(RAdd(a, Rat(1, 2)))

\* cfg of overlayCrackles
CrackleCfg(profile) ==
  IF profile = "fine"
  THEN [rateHz |-> FromInt(7), burstProb |-> Rat(28, 100), burstK |-> <<1, 2>>,
        fineRatio |-> Rat(9, 10), refractoryMs |-> 18]
  ELSE [rateHz |-> Rat(42, 10), burstProb |-> Rat(55, 100), burstK |-> <<2, 5>>,
        fineRatio |-> Rat(25, 100), refractoryMs |-> 30]

\* `const refractory = Math.round((cfg.refractoryMs * fs) / 1000);`
Refractory(profile) == Round(Rat(CrackleCfg(profile).refractoryMs * FsLung, 1000))

\* `i += Math.round(0.008 * fs);`
CrackleAdvanceNone(fs) == 0

CrackleAdvance(fs) == Round(Rat(8 * fs, 1000))

\* p[i] = (cfg.rateHz / fs) * w[i], with the phase weight w[i] = 1
GateP(profile) == RDiv(CrackleCfg(profile).rateHz, FromInt(FsLung))

\* the length of a kernel of crackleKernel: Math.max(6, Math.round(fs * durMs / 1000))
KerLen(kind, u) ==
  LET durMs == IF kind = "fine" THEN Lerp(FromInt(6), FromInt(12), u)
                                ELSE Lerp(FromInt(14), FromInt(30), u)
  IN Max(6, Round(RDiv(RMul(FromInt(FsLung), durMs), FromInt(1000))))

KerLens(kind) == {KerLen(kind, u) : u \in U}

\* the kinds `rnd() < cfg.fineRatio` can pick
PickKinds(profile) ==
  {IF RLt(u, CrackleCfg(profile).fineRatio) THEN "fine" ELSE "coarse" : u \in U}

\* `const addn = Math.floor(lerp(cfg.burstK[0], cfg.burstK[1] + 1, rnd()));`
BurstCounts(profile) ==
  {RFloor(Lerp(FromInt(CrackleCfg(profile).burstK[1]),
               FromInt(CrackleCfg(profile).burstK[2] + 1), u)) : u \in U}

\* the burst position without the clamp to the last sample
BurstPosUnclamped(N, pos, u) ==
  RFloor(RAdd(FromInt(pos), RMul(Lerp(Rat(15, 1000), Rat(80, 1000), u), FromInt(FsLung))))

\* `pos = Math.min(N - 1, Math.floor(pos + gap * fs));` with gap = lerp(0.015, 0.08, rnd())
BurstPos(N, pos, u) ==
  Min(N - 1, RFloor(RAdd(FromInt(pos),
        RMul(Lerp(Rat(15, 1000), Rat(80, 1000), u), FromInt(FsLung)))))

\* the longest waveform handed to overlayCrackles
MaxCrackleLen == 32

CrackleLens == {0, 1, MaxCrackleLen}

\* ck.pc: "loop" at the head of `while (i < N)`, "burst" inside the burst
\* loop, "done" after the while loop.  ck.iters counts completed iterations
\* of the while loop, ck.hi is the highest index of out written so far.
InitCrackles ==
  /\ rs = Idle
  /\ ev = Idle
  /\ snr = Idle
  /\ gen = Idle
  /\ nm = Idle
  /\ rg = Idle
  /\ hp = Idle
  /\ fl = Idle
  /\ \E profile \in {"fine", "coarse"}, N \in CrackleLens :
       ck = [profile |-> profile, N |-> N, pc |-> "loop", i |-> 0,
             lastPlaced |-> 0 - Refractory(profile), iters |-> 0,
             events |-> <<>>, hi |-> 0 - 1, b |-> 0, pos |-> 0]

\* the test made against the start of the waveform only
InRefractoryFromStart == ck.i < Refractory(ck.profile)

InRefractory == ck.i - ck.lastPlaced < Refractory(ck.profile)

\* `if (i - lastPlaced < refractory) { i++; continue; }`
CrackleRefractory ==
  /\ ck.pc = "loop" /\ ck.i < ck.N /\ InRefractory
  /\ ck' = [ck EXCEPT !.i = ck.i + 1, !.iters = ck.iters + 1]
  /\ UNCHANGED <<rs, ev, snr, gen, nm, rg, hp, fl>>

\* the gate draw is not below p[i]: `else { i++; }`
CrackleMiss ==
  /\ ck.pc = "loop" /\ ck.i < ck.N /\ ~InRefractory
  /\ \E u \in U : ~RLt(u, GateP(ck.profile))
  /\ ck' = [ck EXCEPT !.i = ck.i + 1, !.iters = ck.iters + 1]
  /\ UNCHANGED <<rs, ev, snr, gen, nm, rg, hp, fl>>

\* the state after a crackle of kind `kind` with a kernel of `len` samples
\* was added at i
Placed(kind, len) ==
  [ck EXCEPT !.events = Append(ck.events, [sample |-> ck.i, kind |-> kind]),
             !.hi = Max(ck.hi, Min(ck.N, ck.i + len) - 1),
             !.lastPlaced = ck.i,
             !.pos = Min(ck.N, ck.i + len)]

\* a gate-triggered crackle without a burst
CracklePlace ==
  /\ ck.pc = "loop" /\ ck.i < ck.N /\ ~InRefractory
  /\ \E u \in U : RLt(u, GateP(ck.profile))
  /\ \E ub \in U : ~RLt(ub, CrackleCfg(ck.profile).burstProb)
  /\ \E kind \in PickKinds(ck.profile) : \E len \in KerLens(kind) :
       ck' = [Placed(kind, len) EXCEPT !.i = ck.i + CrackleAdvance(FsLung),
                                       !.iters = ck.iters + 1]
  /\ UNCHANGED <<rs, ev, snr, gen, nm, rg, hp, fl>>

\* a gate-triggered crackle followed by a burst of addn more
CrackleBurstStart ==
  /\ ck.pc = "loop" /\ ck.i < ck.N /\ ~InRefractory
  /\ \E u \in U : RLt(u, GateP(ck.profile))
  /\ \E ub \in U : RLt(ub, CrackleCfg(ck.profile).burstProb)
  /\ \E kind \in PickKinds(ck.profile) : \E len \in KerLens(kind) :
     \E addn \in BurstCounts(ck.profile) :
       ck' = [Placed(kind, len) EXCEPT !.pc = "burst", !.b = addn]
  /\ UNCHANGED <<rs, ev, snr, gen, nm, rg, hp, fl>>

\* one iteration of `for (let b = 0; b < addn; b++)`
CrackleBurstStep ==
  /\ ck.pc = "burst" /\ ck.b > 0
  /\ \E u \in U : \E kind \in PickKinds(ck.profile) : \E len \in KerLens(kind) :
       LET pos == BurstPos(ck.N, ck.pos, u)
       IN ck' = [ck EXCEPT !.pos = pos, !.b = ck.b - 1,
                           !.events = Append(ck.events, [sample |-> pos, kind |-> "burst"]),
                           !.hi = Max(ck.hi, Min(ck.N, pos + len) - 1)]
  /\ UNCHANGED <<rs, ev, snr, gen, nm, rg, hp, fl>>

\* `lastPlaced = pos;` and `i += Math.round(0.008 * fs);` after the burst
CrackleBurstEnd ==
  /\ ck.pc = "burst" /\ ck.b = 0
  /\ ck' = [ck EXCEPT !.pc = "loop", !.lastPlaced = ck.pos,
                      !.i = ck.i + CrackleAdvance(FsLung),
                      !.iters = ck.iters + 1]
  /\ UNCHANGED <<rs, ev, snr, gen, nm, rg, hp, fl>>

\* `while (i < N)` fails
CrackleExit ==
  /\ ck.pc = "loop" /\ ck.i >= ck.N
  /\ ck' = [ck EXCEPT !.pc = "done"]
  /\ UNCHANGED <<rs, ev, snr, gen, nm, rg, hp, fl>>

\* a waveform long enough for a gate-triggered crackle to follow a burst
MaxGateLen == 44

InitCracklesLong ==
  /\ rs = Idle
  /\ ev = Idle
  /\ snr = Idle
  /\ gen = Idle
  /\ nm = Idle
  /\ rg = Idle
  /\ hp = Idle
  /\ fl = Idle
  /\ \E profile \in {"fine", "coarse"} :
       ck = [profile |-> profile, N |-> MaxGateLen, pc |-> "loop", i |-> 0,
             lastPlaced |-> 0 - Refractory(profile), iters |-> 0,
             events |-> <<>>, hi |-> 0 - 1, b |-> 0, pos |-> 0]

NextCrackles ==
  \/ CrackleRefractory \/ CrackleMiss \/ CracklePlace \/ CrackleBurstStart
  \/ CrackleBurstStep \/ CrackleBurstEnd \/ CrackleExit

SpecCrackles == InitCracklesLong /\ [][NextCrackles]_vars

\* C15: a gate-triggered crackle is never placed fewer than `refractory`
\* samples after the crackle placed last before it, be that one
\* gate-triggered or the last member of a burst.
C15_Refractory ==
  ck.pc # "idle" =>
    \A j \in 2..Len(ck.events) :
      ck.events[j].kind # "burst" =>
        ck.events[j].sample - ck.events[j - 1].sample >= Refractory(ck.profile)

C15_Witness ==
  /\ ck.pc = "done" /\ Len(ck.events) >= 3
  /\ ck.events[2].kind = "burst" /\ ck.events[3].kind # "burst"
  /\ ck.events[3].sample - ck.events[2].sample = Refractory(ck.profile)

\* C27: the sample indices of the events of overlayCrackles are
\* non-decreasing in list order and lie in 0 .. N - 1, every kernel sample
\* is added at an index below N, so that the returned waveform keeps the
\* length N, whatever the draws, bursts clamped to the last sample included.
C27_EventIndices ==
  ck.pc # "idle" =>
    /\ \A j \in 1..Len(ck.events) :
         /\ ck.events[j].sample \in 0..(ck.N - 1)
         /\ j >= 2 => ck.events[j - 1].sample <= ck.events[j].sample
    /\ ck.hi <= ck.N - 1
    /\ Max(ck.N, ck.hi + 1) = ck.N

\* C27 witness: a burst whose last two members were both clamped to the
\* last sample, where the kernel was cut to one sample.
C27_Witness ==
  /\ ck.pc = "done" /\ Len(ck.events) >= 3
  /\ ck.events[Len(ck.events)].kind = "burst"
  /\ ck.events[Len(ck.events)].sample = ck.N - 1
  /\ ck.events[Len(ck.events) - 1].sample = ck.N - 1
  /\ ck.events[1].sample < ck.N - 1
  /\ ck.hi = ck.N - 1

(***************************************************************************)
(* The loops of the generators under weak fairness: a running loop takes   *)
(* its next step (the engine is synchronous and single-threaded)           *)
(***************************************************************************)
InitLoops == InitEvents \/ InitCrackles

NextLoops ==
  \/ ArrivalPush \/ ArrivalBreak \/ RenderSkip \/ RenderMovement \/ RenderUc
  \/ RenderDone
  \/ CrackleRefractory \/ CrackleMiss \/ CracklePlace \/ CrackleBurstStart
  \/ CrackleBurstStep \/ CrackleBurstEnd \/ CrackleExit

SpecLoops == InitLoops /\ [][NextLoops]_vars /\ WF_vars(NextLoops)

\* C9: every loop of the generators terminates: a run of the Poisson arrival
\* and render loops, or of the crackle placement loop, eventually is done; a
\* rate <= 0 leaves the arrival loop after one iteration with no start and no
\* event; and every completed iteration of the crackle placement loop
\* strictly increases its index i.
C9_Termination ==
  /\ <>(ev.pc \in {"idle", "done"} /\ ck.pc \in {"idle", "done"})
  /\ [](ev.pc \in {"render", "done"} /\ ev.rate <= 0 =>
          ev.iters = 1 /\ ev.starts = <<>> /\ ev.events = <<>>)
  /\ [][ck.pc # "idle" => (ck'.iters > ck.iters => ck'.i > ck.i)]_vars

\* C9 witness: the crackle loop ran to the end of a waveform in fewer
\* iterations than it has samples, having placed a crackle and a burst.
C9_Witness ==
  /\ ck.pc = "done" /\ ck.N > 1 /\ ck.i >= ck.N
  /\ ck.iters < ck.N
  /\ \E j \in 1..Len(ck.events) : ck.events[j].kind = "burst"

(***************************************************************************)
(* The SNR compositors: addNoiseSNR of pcg.ts, the combine step of         *)
(* simulateFpcgDataset and addNoiseSNR of the lung module.                 *)
(* A value c * Math.sqrt(q), with c and q rational, is held exactly as the *)
(* record [c |-> c, q |-> q].                                              *)
(***************************************************************************)
Sqrt(r) == [c |-> FromInt(1), q |-> r]

SurdOf(r) == [c |-> r, q |-> FromInt(1)]

SMul(s, t) == [c |-> RMul(s.c, t.c), q |-> RMul(s.q, t.q)]

SDiv(s, t) == [c |-> RDiv(s.c, t.c), q |-> RDiv(s.q, t.q)]

\* the square of c * sqrt(q)
SSq(s) == RMul(RMul(s.c, s.c), s.q)

\* arr.reduce((s, v) => s + v * v, 0) / Math.max(1, arr.length):
\* pSig of pcg.ts, the `rms` of the lung module, the square of the fetal `rms`
RECURSIVE Sum(_, _)
Sum(arr, k) == IF k = 0 THEN Zero ELSE RAdd(Sum(arr, k - 1), arr[k])

MeanSq(arr) ==
  RDiv(Sum([k \in 1..Len(arr) |-> RMul(arr[k], arr[k])], Len(arr)),
       FromInt(Max(1, Len(arr))))

RECURSIVE Pow10(_)
Pow10(k) == IF k = 0 THEN 1 ELSE 10 * Pow10(k - 1)

\* Math.pow(10, snrDb / 10): exact for snrDb a multiple of 10; the targets
\* 6 dB and 12 dB of the heart and lung entry points (3.98 and 15.85) are
\* held as 4 and 16.  Math.pow(10, snr_db / 20) is its square root.
SnrLinUnit(snrDb) == FromInt(1)

SnrLin(snrDb) ==
  IF snrDb = 6 THEN FromInt(4)
  ELSE IF snrDb = 12 THEN FromInt(16)
  ELSE IF snrDb >= 0 THEN FromInt(Pow10(snrDb \div 10))
  ELSE Rat(1, Pow10((0 - snrDb) \div 10))

\* one pass of `out[i] = a * out[i - 1] + (1 - a) * y[i]` for i = 1 .. n-1
\* over out = new Array(n).fill(0)
RECURSIVE OnePoleAt(_, _, _)
OnePoleAt(y, a, i) ==
  IF i = 0 THEN Zero
  ELSE RAdd(RMul(a, OnePoleAt(y, a, i - 1)), RMul(RSub(FromInt(1), a), y[i + 1]))

OnePolePass(y, a) == [k \in 1..Len(y) |-> OnePoleAt(y, a, k - 1)]

\* lowpassFilter: `order` passes with the same coefficient
RECURSIVE LowpassFilter(_, _, _)
LowpassFilter(y, a, order) ==
  IF order = 0 THEN y ELSE LowpassFilter(OnePolePass(y, a), a, order - 1)

\* a = Math.exp((-2 * Math.PI * 100) / fs) = 0.533 at fs = 1000, held as 1/2
NoiseLowpassCoef == Rat(1, 2)

\* the track pcg.ts addNoiseSNR adds to x: filtered[i] * Math.sqrt(pNoise),
\* filtered being the low-passed noise divided by its root mean square.  The
\* 1e-8 guards only decide the case of an all-zero filtered track, which
\* stays all zero.
PcgNoise(x, noise, snrDb) ==
  LET pNoise == RDiv(MeanSq(x), SnrLin(snrDb))
      filtered == LowpassFilter(noise, NoiseLowpassCoef, 4)
      noisePower == Sqrt(MeanSq(filtered))
  IN [k \in 1..Len(x) |->
        IF MeanSq(filtered) = Zero THEN SurdOf(Zero)
        ELSE SMul(SDiv(SurdOf(filtered[k]), noisePower), Sqrt(pNoise))]

\* the track the fetal combine step adds to signal_base:
\* (noise[i] / noise_norm) * noise_r
FetalNoise(signal_base, noise, snr_db) ==
  LET signal_r == Sqrt(MeanSq(signal_base))
      noise_r == SDiv(signal_r, Sqrt(SnrLin(snr_db)))
      noise_norm == IF MeanSq(noise) = Zero THEN SurdOf(FromInt(1))
                    ELSE Sqrt(MeanSq(noise))
  IN [k \in 1..Len(signal_base) |-> SMul(SDiv(SurdOf(noise[k]), noise_norm), noise_r)]

\* the track the lung addNoiseSNR adds to sig: scale * noise[i]
LungNoise(sig, noise, snrDb) ==
  LET sigPower == MeanSq(sig)
      noisePower == MeanSq(noise)
      scale == Sqrt(RDiv(RDiv(sigPower, SnrLin(snrDb)),
                         IF noisePower = Zero THEN FromInt(1) ELSE noisePower))
  IN [k \in 1..Len(sig) |-> SMul(scale, SurdOf(noise[k]))]

\* the mean square of a track of values c * sqrt(q)
TrackPower(track) ==
  RDiv(Sum([k \in 1..Len(track) |-> SSq(track[k])], Len(track)),
       FromInt(Max(1, Len(track))))

\* inputs of the compositors: signals and noise draws of up to MaxSigLen
\* samples and target SNRs in dB.  gaussian() does not return exactly 0.
MaxSigLen == 3

SigVals == {-3, 0, 2}

NoiseVals == {-2, -1, 1, 2}

SnrDbs == {0 - 10, 0, 10, 20}

\* a beat of simulateSingleBeat has Math.floor(1.2 * fs) samples
MinSigLen(impl) == IF impl = "pcg" THEN 2 ELSE 1

InitSnr ==
  /\ rs = Idle
  /\ ev = Idle
  /\ ck = Idle
  /\ gen = Idle
  /\ nm = Idle
  /\ rg = Idle
  /\ hp = Idle
  /\ fl = Idle
  /\ \E impl \in Impls, snrDb \in SnrDbs :
     \E n \in MinSigLen(impl)..MaxSigLen :
     \E x \in [1..n -> SigVals], noise \in [1..n -> NoiseVals] :
       snr = [impl |-> impl, snrDb |-> snrDb, pc |-> "call",
              x |-> [k \in 1..n |-> FromInt(x[k])],
              noise |-> [k \in 1..n |-> FromInt(noise[k])],
              track |-> <<>>]

PcgAddNoise ==
  /\ snr.pc = "call" /\ snr.impl = "pcg"
  /\ snr' = [snr EXCEPT !.pc = "done", !.track = PcgNoise(snr.x, snr.noise, snr.snrDb)]
  /\ UNCHANGED <<rs, ev, ck, gen, nm, rg, hp, fl>>

FetalCombine ==
  /\ snr.pc = "call" /\ snr.impl = "fpcg"
  /\ snr' = [snr EXCEPT !.pc = "done", !.track = FetalNoise(snr.x, snr.noise, snr.snrDb)]
  /\ UNCHANGED <<rs, ev, ck, gen, nm, rg, hp, fl>>

LungAddNoise ==
  /\ snr.pc = "call" /\ snr.impl = "lung"
  /\ snr' = [snr EXCEPT !.pc = "done", !.track = LungNoise(snr.x, snr.noise, snr.snrDb)]
  /\ UNCHANGED <<rs, ev, ck, gen, nm, rg, hp, fl>>

NextSnr == PcgAddNoise \/ FetalCombine \/ LungAddNoise

SpecSnr == InitSnr /\ [][NextSnr]_vars

\* C10: the noise track an SNR compositor adds has the power of the signal
\* divided by 10^(snrDb/10); at 0 dB its RMS equals the RMS of the signal.
C10_SnrRatio ==
  snr.pc = "done" =>
    /\ LET ratio == CASE snr.snrDb = 0 - 10 -> Rat(1, 10)
                       [] snr.snrDb = 0 -> FromInt(1)
                       [] snr.snrDb = 10 -> FromInt(10)
                       [] snr.snrDb = 20 -> FromInt(100)
       IN RMul(TrackPower(snr.track), ratio) = MeanSq(snr.x)
    /\ snr.snrDb = 0 => Sqrt(TrackPower(snr.track)) = Sqrt(MeanSq(snr.x))

\* C10 witness: a compositor scaled noise against a non-zero signal at a
\* target other than 0 dB.
C10_Witness ==
  /\ snr.pc = "done" /\ snr.snrDb = 10 /\ snr.impl = "pcg"
  /\ MeanSq(snr.x) # Zero
  /\ TrackPower(snr.track) # Zero

(***************************************************************************)
(* The generator entry points.  A waveform is held as a short array of     *)
(* frames, integers in units of 1/Scale; a frame stands for the samples of *)
(* a part of one cycle.  The synthesis of a frame is not modelled sample   *)
(* by sample: its value is drawn, through the random source the pipeline   *)
(* uses, from the values the stage can produce.  The steps after the       *)
(* synthesis (noise, normalisation, resampling) are those of the code.     *)
(***************************************************************************)
Scale == 100

GenKinds == {"genFhsNormal", "genFhsMoveStrong", "simulateHeartDataset",
             "genNormalLungSignal"}

Pipeline(kind) ==
  CASE kind \in {"genFhsNormal", "genFhsMoveStrong"} -> "fpcg"
    [] kind = "simulateHeartDataset" -> "pcg"
    [] kind = "genNormalLungSignal" -> "lung"

\* the cycle count a generator synthesises: genFhs* and gen*Signal pass
\* Math.max(1, Math.floor(cycles)); simulateHeartDataset passes
\* `opts.cycles ?? 10` to simulateMultibeat as numBeats
CyclesUsed(kind, cycles) ==
  IF Pipeline(kind) = "pcg" THEN cycles ELSE Max(1, cycles)

\* the k-th value a seeded generator (seededRandom(2025) of pcg.ts, rng(seed)
\* of the lung module) yields is a function of the seed and k alone; vals
\* lists the values the draw is mapped to
SeededPick(seed, k, vals) == vals[((seed + k) % Len(vals)) + 1]

\* frames of a beat of simulateSingleBeat (valve amplitudes amp_main * 2.0,
\* amp_sub * 2.0) and of a breath of oneCycleRandom (insp_amp_range up to 1.2)
SeededFrameVals(pipeline) ==
  IF pipeline = "pcg" THEN <<160, 0 - 80, 0, 40>> ELSE <<120, 0 - 90, 0, 50>>

SeededNoiseVals == <<1, 0 - 2, 2, 0 - 1>>

\* frames of signal_base of simulateFpcgDataset: a sample of the propagated
\* S1 pulse, between 0 and amp_s1 = 0.8 + 0.08 * gaussian(rand), plus a sample
\* of the movement track, 0.25 * intensity * (y[j] + thump) with the thump
\* exp(0) = 1 at its first sample
FetalFrames(kind) ==
  {h + m : h \in {0} \cup {(80 + 8 * g) \div 2 : g \in {0 - 2, 2}},
           m \in IF kind = "genFhsMoveStrong" THEN {0, (25 * 2 * (2 + 1))} ELSE {0}}

GenNoiseDraws == {0 - 1, 2}

Rats(y) == [k \in 1..Len(y) |-> FromInt(y[k])]

RECURSIVE ISqrtFrom(_, _)
ISqrtFrom(m, r) == IF (r + 1) * (r + 1) > m THEN r ELSE ISqrtFrom(m, r + 1)

\* c * sqrt(q) rounded to an integer
Fixed(s) == (IF s.c.n < 0 THEN 0 - 1 ELSE 1) * ISqrtFrom(RFloor(SSq(s)), 0)

RECURSIVE MaxAbs(_, _)
MaxAbs(y, k) == IF k = 0 THEN 0 ELSE Max(MaxAbs(y, k - 1), Abs(y[k]))

\* `y[i] = (0.95 * y[i]) / peak` with peak = Math.max(...|y|, eps)
Normalize95(y) ==
  [k \in 1..Len(y) |->
     IF MaxAbs(y, Len(y)) = 0 THEN 0 ELSE (95 * Scale * y[k]) \div (100 * MaxAbs(y, Len(y)))]

\* signal_skin_total = signal_base + noise, returned as it is (snr_db = 10)
FetalFinal(base, noise) ==
  [k \in 1..Len(base) |-> base[k] + Fixed(FetalNoise(Rats(base), Rats(noise), 10)[k])]

\* a beat of simulateMultibeat: addNoiseSNR(beat, 6, ...), then normalised to 0.95
HeartBeatFinal(beat, noise) ==
  Normalize95([k \in 1..Len(beat) |->
                 beat[k] + Fixed(PcgNoise(Rats(beat), Rats(noise), 6)[k])])

\* the lung addNoiseSNR(base.y, fs, 12, ...): noise added, then normalised to 0.95
LungFinal(sig, noise) ==
  Normalize95([k \in 1..Len(sig) |->
                 sig[k] + Fixed(LungNoise(Rats(sig), Rats(noise), 12)[k])])

\* a whole call of the resampler of a pipeline with a count >= 1
ResampleAll(impl, ys, count) ==
  IF SameLength(ys, count) THEN Slice(ys)
  ELSE [i \in 1..count |-> ResampleSample(impl, TimeAxis(Len(ys)), ys, count, i - 1)]

\* inputs of the entry points
MaxCycles == 2

MaxGenCount == 3

\* gen.pc: "call" on entry, "synth" in the loop over cycles, "resample"
\* after the last stage of the synthesis, "returned" after the return.
\* gen.run is 1 in the first call and 2 in the second call with the same
\* arguments; gen.out1 is what the first call returned.  gen.d counts the
\* draws made from the seeded generator of the synthesis.
InitGen ==
  /\ rs = Idle
  /\ ev = Idle
  /\ ck = Idle
  /\ snr = Idle
  /\ nm = Idle
  /\ rg = Idle
  /\ hp = Idle
  /\ fl = Idle
  /\ \E kind \in GenKinds, count \in 1..MaxGenCount, cycles \in (0 - 1)..MaxCycles :
       gen = [kind |-> kind, count |-> count, cycles |-> cycles, run |-> 1,
              pc |-> "call", nCycles |-> 0, k |-> 0, d |-> 0, y |-> <<>>,
              out |-> <<>>, out1 |-> <<>>]

GenCall ==
  /\ gen.pc = "call"
  /\ gen' = [gen EXCEPT !.pc = "synth", !.k = 0, !.d = 0, !.y = <<>>, !.out = <<>>,
                        !.nCycles = CyclesUsed(gen.kind, gen.cycles)]
  /\ UNCHANGED <<rs, ev, ck, snr, nm, rg, hp, fl>>

\* one beat of `for (const rr of T)`: every draw is made from
\* rand = rngFactory(null), that is Math.random
GenFetalBeat ==
  /\ gen.pc = "synth" /\ Pipeline(gen.kind) = "fpcg" /\ gen.k < gen.nCycles
  /\ \E f \in FetalFrames(gen.kind) :
       gen' = [gen EXCEPT !.y = Append(gen.y, f), !.k = gen.k + 1]
  /\ UNCHANGED <<rs, ev, ck, snr, nm, rg, hp, fl>>

\* one iteration of `for (let b = 0; b < numBeats; b++)` of simulateMultibeat
\* with rng = seededRandom(2025)
GenHeartBeat ==
  /\ gen.pc = "synth" /\ Pipeline(gen.kind) = "pcg" /\ gen.k < gen.nCycles
  /\ LET beat == [j \in 1..2 |-> SeededPick(2025, gen.d + j - 1, SeededFrameVals("pcg"))]
         noise == [j \in 1..2 |-> SeededPick(2025, gen.d + j + 1, SeededNoiseVals)]
     IN gen' = [gen EXCEPT !.y = gen.y \o HeartBeatFinal(beat, noise),
                           !.k = gen.k + 1, !.d = gen.d + 4]
  /\ UNCHANGED <<rs, ev, ck, snr, nm, rg, hp, fl>>

\* one iteration of `for (let i = 0; i < nCycles; i++)` of
\* synthBreathRandomCycles with rand = rng(2025)
GenLungCycle ==
  /\ gen.pc = "synth" /\ Pipeline(gen.kind) = "lung" /\ gen.k < gen.nCycles
  /\ LET breath == [j \in 1..2 |-> SeededPick(2025, gen.d + j - 1, SeededFrameVals("lung"))]
     IN gen' = [gen EXCEPT !.y = gen.y \o breath, !.k = gen.k + 1, !.d = gen.d + 2]
  /\ UNCHANGED <<rs, ev, ck, snr, nm, rg, hp, fl>>

\* after the beats: the trailing half second of total_duration, then
\* signal_base plus noise drawn from rand; no normalisation follows
GenFetalCombine ==
  /\ gen.pc = "synth" /\ Pipeline(gen.kind) = "fpcg" /\ gen.k >= gen.nCycles
  /\ \E noise \in [1..(Len(gen.y) + 1) -> GenNoiseDraws] :
       gen' = [gen EXCEPT !.pc = "resample", !.y = FetalFinal(Append(gen.y, 0), noise)]
  /\ UNCHANGED <<rs, ev, ck, snr, nm, rg, hp, fl>>

\* `const pcg = beats.flat();` (the amplification of a weak signal changes
\* nothing at this resolution)
GenHeartFlat ==
  /\ gen.pc = "synth" /\ Pipeline(gen.kind) = "pcg" /\ gen.k >= gen.nCycles
  /\ gen' = [gen EXCEPT !.pc = "resample"]
  /\ UNCHANGED <<rs, ev, ck, snr, nm, rg, hp, fl>>

\* addNoiseSNR(base.y, fs, 12, 2025, ...) of the lung module
GenLungNoise ==
  /\ gen.pc = "synth" /\ Pipeline(gen.kind) = "lung" /\ gen.k >= gen.nCycles
  /\ LET noise == [j \in 1..Len(gen.y) |-> SeededPick(2025, j - 1, SeededNoiseVals)]
     IN gen' = [gen EXCEPT !.pc = "resample", !.y = LungFinal(gen.y, noise)]
  /\ UNCHANGED <<rs, ev, ck, snr, nm, rg, hp, fl>>

\* `return resampleToLength(t, y, count)` / `return resampleTo(y, count)`;
\* simulateHeartDataset returns { t, y: pcg }
GenReturn ==
  /\ gen.pc = "resample"
  /\ gen' = [gen EXCEPT !.pc = "returned",
                        !.out = IF Pipeline(gen.kind) = "pcg" THEN Rats(gen.y)
                                ELSE ResampleAll(Pipeline(gen.kind), gen.y, gen.count)]
  /\ UNCHANGED <<rs, ev, ck, snr, nm, rg, hp, fl>>

\* the caller invokes the generator again with the same arguments
GenAgain ==
  /\ gen.pc = "returned" /\ gen.run = 1
  /\ gen' = [gen EXCEPT !.pc = "call", !.run = 2, !.out1 = gen.out]
  /\ UNCHANGED <<rs, ev, ck, snr, nm, rg, hp, fl>>

NextGen ==
  \/ GenCall \/ GenFetalBeat \/ GenHeartBeat \/ GenLungCycle \/ GenFetalCombine
  \/ GenHeartFlat \/ GenLungNoise \/ GenReturn \/ GenAgain

SpecGen == InitGen /\ [][NextGen]_vars

\* C1 (as claimed): two calls of a generator with the same arguments return
\* the same sequence.
C1_Deterministic ==
  (gen.pc = "returned" /\ gen.run = 2) => gen.out = gen.out1

\* C3 (as claimed): every sample a generator returns has magnitude <= 1.0.
C3_PeakBound ==
  gen.pc = "returned" =>
    \A k \in 1..Len(gen.out) :
      IsNum(gen.out[k]) =>
        /\ RGeq(FromInt(Scale), gen.out[k])
        /\ RGeq(gen.out[k], FromInt(0 - Scale))

\* C7 (as claimed): with cycles <= 0 the generator synthesises at least one
\* cycle, and the waveform before resampling is not empty.
C7_CyclesCoerced ==
  (gen.pc \in {"resample", "returned"} /\ gen.cycles <= 0) =>
    gen.nCycles >= 1 /\ Len(gen.y) >= 1

(***************************************************************************)
(* Peak normalisation.  nm.parts holds the un-normalised composite: the    *)
(* beats of simulateMultibeat after addNoiseSNR, or the one waveform of a  *)
(* lung function before its last loop.  Samples are integers, the          *)
(* normalised ones exact rationals.                                        *)
(***************************************************************************)
NormFns == {"simulateMultibeat", "addNoiseSNR", "overlayCrackles", "synthWheezeRhythmic"}

\* 0.95 everywhere but in overlayCrackles (0.98)
Ceiling(fn) == IF fn = "overlayCrackles" THEN Rat(98, 100) ELSE Rat(95, 100)

\* `out[k] = (c * out[k]) / peak` with peak = Math.max(...|out|, eps): an
\* all-zero waveform has peak = eps and stays zero
PeakNormalize(y, c) ==
  [k \in 1..Len(y) |->
     IF MaxAbs(y, Len(y)) = 0 THEN Zero ELSE RMul(c, Rat(y[k], MaxAbs(y, Len(y))))]

RECURSIVE Flat(_)
Flat(beats) == IF beats = <<>> THEN <<>> ELSE Head(beats) \o Flat(Tail(beats))

\* the weak-signal branch taken for every waveform
IsWeakAlways(pcg) == TRUE

\* `pcg.length === 0 || Math.max(...|pcg|, 0) < 0.01`
IsWeak(pcg) ==
  \A k \in 1..Len(pcg) : RLt(pcg[k], Rat(1, 100)) /\ RLt(Rat(0 - 1, 100), pcg[k])

\* in the weak-signal branch every sample is multiplied by 10
AmplifyWeak(pcg) ==
  IF IsWeak(pcg) THEN [k \in 1..Len(pcg) |-> RMul(FromInt(10), pcg[k])] ELSE pcg

\* `if (peak < 1e-6)` every sample of the beat is multiplied by 100; at the
\* resolution of the samples that is the all-zero beat
BoostTiny(y) == IF MaxAbs(y, Len(y)) = 0 THEN [k \in 1..Len(y) |-> 100 * y[k]] ELSE y

MaxBeats == 2

MaxBeatLen == 2

NormVals == {0 - 2, 0, 3}

NormParts(fn) ==
  LET beat == UNION {[1..n -> NormVals] : n \in 1..MaxBeatLen}
  IN IF fn = "simulateMultibeat" THEN UNION {[1..n -> beat] : n \in 0..MaxBeats}
     ELSE [1..1 -> beat]

InitNorm ==
  /\ rs = Idle
  /\ ev = Idle
  /\ ck = Idle
  /\ snr = Idle
  /\ gen = Idle
  /\ rg = Idle
  /\ hp = Idle
  /\ fl = Idle
  /\ \E fn \in NormFns :
       \E parts \in NormParts(fn) :
         nm = [fn |-> fn, parts |-> parts, pc |-> "run", beats |-> <<>>, out |-> <<>>,
               weak |-> FALSE]

\* the end of one iteration of `for (let b = 0; b < numBeats; b++)`:
\* the beat is normalised by its own peak and pushed
NormBeat ==
  /\ nm.pc = "run" /\ nm.fn = "simulateMultibeat" /\ Len(nm.beats) < Len(nm.parts)
  /\ nm' = [nm EXCEPT !.beats =
              Append(nm.beats, PeakNormalize(BoostTiny(nm.parts[Len(nm.beats) + 1]),
                                             Ceiling(nm.fn)))]
  /\ UNCHANGED <<rs, ev, ck, snr, gen, rg, hp, fl>>

\* `const pcg = beats.flat()`, the amplification of a weak signal, return
NormFlat ==
  /\ nm.pc = "run" /\ nm.fn = "simulateMultibeat" /\ Len(nm.beats) = Len(nm.parts)
  /\ nm' = [nm EXCEPT !.pc = "done", !.out = AmplifyWeak(Flat(nm.beats)),
                      !.weak = IsWeak(Flat(nm.beats))]
  /\ UNCHANGED <<rs, ev, ck, snr, gen, rg, hp, fl>>

\* the last loop of addNoiseSNR, overlayCrackles and synthWheezeRhythmic
NormWhole ==
  /\ nm.pc = "run" /\ nm.fn # "simulateMultibeat"
  /\ nm' = [nm EXCEPT !.pc = "done", !.out = PeakNormalize(nm.parts[1], Ceiling(nm.fn))]
  /\ UNCHANGED <<rs, ev, ck, snr, gen, rg, hp, fl>>

NextNorm == NormBeat \/ NormFlat \/ NormWhole

SpecNorm == InitNorm /\ [][NextNorm]_vars

\* C11 (as claimed): the returned waveform is the un-normalised composite
\* times one positive factor, the same at every sample, and no sample
\* exceeds the ceiling in magnitude.
C11_SingleFactor ==
  nm.pc = "done" =>
    LET comp == Flat(nm.parts)
        n == Len(nm.out)
    IN /\ n = Len(comp)
       /\ \A k \in 1..n :
            /\ RGeq(Ceiling(nm.fn), nm.out[k])
            /\ RGeq(nm.out[k], RSub(Zero, Ceiling(nm.fn)))
            /\ (comp[k] > 0) = RLt(Zero, nm.out[k])
            /\ (comp[k] < 0) = RLt(nm.out[k], Zero)
       /\ \A j, k \in 1..n :
            RMul(nm.out[j], FromInt(comp[k])) = RMul(nm.out[k], FromInt(comp[j]))

(***************************************************************************)
(* The seeded random sources.  A 32-bit word is the pair <<high half, low  *)
(* half>> of its 16-bit halves; the operators below are the 32-bit         *)
(* operators of JavaScript on such words, bit for bit.  A draw is kept as  *)
(* the word t ^ (t >>> 14) that the source divides by 2^32.                *)
(***************************************************************************)
Half == 256 * 256

RECURSIVE BitXor(_, _, _)
BitXor(a, b, n) ==
  IF n = 0 THEN 0 ELSE ((a + b) % 2) + 2 * BitXor(a \div 2, b \div 2, n - 1)

RECURSIVE BitOr(_, _, _)
BitOr(a, b, n) ==
  IF n = 0 THEN 0
  ELSE (IF a % 2 = 1 \/ b % 2 = 1 THEN 1 ELSE 0) + 2 * BitOr(a \div 2, b \div 2, n - 1)

\* `seed >>> 0`
ToUint32(seed) ==
  IF seed >= 0 THEN <<seed \div Half, seed % Half>>
  ELSE <<Half - 1 - ((0 - seed - 1) \div Half), Half - 1 - ((0 - seed - 1) % Half)>>

\* `(a + b) | 0`
WAdd(a, b) == <<(a[1] + b[1] + ((a[2] + b[2]) \div Half)) % Half, (a[2] + b[2]) % Half>>

\* `a ^ b`
WXor(a, b) == <<BitXor(a[1], b[1], 16), BitXor(a[2], b[2], 16)>>

\* `c | a` for a constant c < 2^16
WOr(c, a) == <<a[1], BitOr(a[2], c, 16)>>

\* `a >>> k` for 0 < k < 16
WShr(a, k) ==
  <<a[1] \div (2 ^ k), ((a[2] \div (2 ^ k)) + (a[1] % (2 ^ k)) * (2 ^ (16 - k))) % Half>>

\* Math.imul(a, b): the low 32 bits of the product, byte by byte
Imul(a, b) ==
  LET a0 == a[2] % 256  a1 == a[2] \div 256  a2 == a[1] % 256  a3 == a[1] \div 256
      b0 == b[2] % 256  b1 == b[2] \div 256  b2 == b[1] % 256  b3 == b[1] \div 256
      p0 == a0 * b0
      p1 == a0 * b1 + a1 * b0 + (p0 \div 256)
      p2 == a0 * b2 + a1 * b1 + a2 * b0 + (p1 \div 256)
      p3 == a0 * b3 + a1 * b2 + a2 * b1 + a3 * b0 + (p2 \div 256)
  IN <<(p3 % 256) * 256 + (p2 % 256), (p1 % 256) * 256 + (p0 % 256)>>

\* 0x6D2B79F5
Golden == <<27947, 31221>>

\* `s = (s + 0x6D2B79F5) | 0`
Mulberry32State(s) == WAdd(s, Golden)

\* the draw made from the state s just advanced
Mulberry32Out(s) ==
  LET t1 == Imul(WXor(s, WShr(s, 15)), WOr(1, s))
      t2 == WXor(WAdd(t1, Imul(WXor(t1, WShr(t1, 7)), WOr(61, t1))), t1)
  IN WXor(t2, WShr(t2, 14))

RngImpls == {"seededRandom", "rngFactory", "rng"}

\* the initial state: `seed >>> 0` in seededRandom, `(seed >>> 0) || 123456789`
\* in rngFactory, `(seed >>> 0) || 1` in rng
SeedState(impl, seed) ==
  IF ToUint32(seed) # <<0, 0>> \/ impl = "seededRandom" THEN ToUint32(seed)
  ELSE IF impl = "rngFactory" THEN <<1883, 52501>>
  ELSE <<0, 1>>

RngSeeds == {0, 77, 2025}

MaxSources == 2

MaxDraws == 2

\* rg.srcs: the sources created so far, each the closure variable s of one
\* call of seededRandom, rngFactory or rng, with the draws it has returned
InitRng ==
  /\ rs = Idle
  /\ ev = Idle
  /\ ck = Idle
  /\ snr = Idle
  /\ gen = Idle
  /\ nm = Idle
  /\ hp = Idle
  /\ fl = Idle
  /\ rg = [pc |-> "run", srcs |-> <<>>]

\* a call of seededRandom(seed), rngFactory(seed) or rng(seed): `let s = ...`
\* is a fresh variable of the new closure
RngCreate ==
  /\ rg.pc = "run" /\ Len(rg.srcs) < MaxSources
  /\ \E impl \in RngImpls, seed \in RngSeeds :
       rg' = [rg EXCEPT !.srcs = Append(rg.srcs,
                [impl |-> impl, seed |-> seed, s |-> SeedState(impl, seed), outs |-> <<>>])]
  /\ UNCHANGED <<rs, ev, ck, snr, gen, nm, hp, fl>>

\* the closures writing one variable s between them
DrawFromShared(srcs, i) ==
  [j \in 1..Len(srcs) |->
     IF j = i
     THEN [srcs[j] EXCEPT !.s = Mulberry32State(srcs[i].s),
                          !.outs = Append(srcs[j].outs, Mulberry32Out(Mulberry32State(srcs[i].s)))]
     ELSE [srcs[j] EXCEPT !.s = Mulberry32State(srcs[i].s)]]

\* one call of the closure i: it advances its own s and returns the draw
DrawFrom(srcs, i) ==
  [srcs EXCEPT ![i] =
     [@ EXCEPT !.s = Mulberry32State(srcs[i].s),
               !.outs = Append(srcs[i].outs, Mulberry32Out(Mulberry32State(srcs[i].s)))]]

RngDraw ==
  /\ rg.pc = "run"
  /\ \E i \in 1..Len(rg.srcs) :
       /\ Len(rg.srcs[i].outs) < MaxDraws
       /\ rg' = [rg EXCEPT !.srcs = DrawFrom(rg.srcs, i)]
  /\ UNCHANGED <<rs, ev, ck, snr, gen, nm, hp, fl>>

NextRng == RngCreate \/ RngDraw

SpecRng == InitRng /\ [][NextRng]_vars

\* the state of a source after k draws, from its seed alone
RECURSIVE StateAfter(_, _)
StateAfter(s0, k) == IF k = 0 THEN s0 ELSE Mulberry32State(StateAfter(s0, k - 1))

\* C12: the k-th draw of a seeded source depends on its seed and on k only:
\* two sources made by the same constructor from the same seed agree at
\* every position both have reached, whatever the interleaving of the draws
\* of the sources alive, and every draw is the one its seed and position fix.
C12_SeededSequence ==
  rg.pc = "run" =>
    /\ \A i, j \in 1..Len(rg.srcs) :
         (rg.srcs[i].impl = rg.srcs[j].impl /\ rg.srcs[i].seed = rg.srcs[j].seed) =>
           \A k \in 1..Min(Len(rg.srcs[i].outs), Len(rg.srcs[j].outs)) :
             rg.srcs[i].outs[k] = rg.srcs[j].outs[k]
    /\ \A i \in 1..Len(rg.srcs) :
         \A k \in 1..Len(rg.srcs[i].outs) :
           rg.srcs[i].outs[k] =
             Mulberry32Out(StateAfter(SeedState(rg.srcs[i].impl, rg.srcs[i].seed), k))

C12_Witness ==
  /\ rg.pc = "run" /\ Len(rg.srcs) = 2
  /\ rg.srcs[1].impl = rg.srcs[2].impl /\ rg.srcs[1].seed = rg.srcs[2].seed
  /\ Len(rg.srcs[1].outs) = 2 /\ Len(rg.srcs[2].outs) = 2
  /\ rg.srcs[1].outs[1] # rg.srcs[1].outs[2]

\* C24: seededRandom(seed), rngFactory(seed) and rng(seed) produce the same
\* sequence for every seed, 0 included: two sources made from the same seed,
\* by whichever of the three constructors, agree at every position both
\* have reached.
C24_SameSequence ==
  \A i \in 1..Len(rg.srcs), j \in 1..Len(rg.srcs) :
    rg.srcs[i].seed = rg.srcs[j].seed =>
      \A k \in 1..Min(Len(rg.srcs[i].outs), Len(rg.srcs[j].outs)) :
        rg.srcs[i].outs[k] = rg.srcs[j].outs[k]

(***************************************************************************)
(* Filters.  Samples are exact rationals.  The coefficient                 *)
(* a = Math.exp((-2 * Math.PI * fc) / fs) is 1 for fc = 0, below 1 for a   *)
(* positive and above 1 for a negative cutoff, and 0.501 for               *)
(* fc / fs = 0.11; it is held as the power of two nearest in the exponent, *)
(* 2^-round(fc / (0.11 fs)), and never as 1 unless fc = 0.                 *)
(***************************************************************************)
FilterFs == 1000

Coef(fc, fs) ==
  LET k == Max(1, (Abs(fc) * 200 + 11 * fs) \div (22 * fs))
  IN IF fc = 0 THEN FromInt(1) ELSE IF fc > 0 THEN Rat(1, 2 ^ k) ELSE FromInt(2 ^ k)

\* onepole_lowpass and onepoleLP: `if (fc <= 0) return x.slice();`, else the
\* pass over a zero-filled array from i = 1
OnePoleLow(x, fc, fs) == IF fc <= 0 THEN x ELSE OnePolePass(x, Coef(fc, fs))

\* the subtraction loop of the high-pass: out[i] = y[i] - low[i]
Minus(y, low) == [k \in 1..Len(y) |-> RSub(y[k], low[k])]

\* onepole_highpass and onepoleHP
OnePoleHigh(x, fc, fs) == IF fc <= 0 THEN x ELSE Minus(x, OnePoleLow(x, fc, fs))

\* the low-pass and the high-pass loop bodies of bandpassFilter and the loop
\* body of lowpassFilter in pcg.ts: no test of the cutoff
PcgLowStage(y, fc, fs) == OnePolePass(y, Coef(fc, fs))

PcgHighStage(y, fc, fs) == Minus(y, OnePolePass(y, Coef(fc, fs)))

PcgClampNone(c, fs) == c

\* Math.min(c, fs / 2 - 1)
PcgClamp(c, fs) == Min(c, (fs \div 2) - 1)

\* Math.min(hi, 0.49 * fs)
SafeClamp(hi, fs) == Min(hi, (49 * fs) \div 100)

\* resonator with a1 = -2 exp(-zeta w0) cos(w0), a2 = exp(-2 zeta w0),
\* b0 = 1 - exp(-zeta w0); at f0 = 96, zeta = 0.24, fs = 1000 they are
\* -1.425, 0.749 and 0.135, held as -10/7, 3/4 and 1/7
RECURSIVE ResonatorAt(_, _)
ResonatorAt(x, i) ==
  LET t0 == RMul(Rat(1, 7), x[i + 1])
      t1 == IF i >= 1 THEN RAdd(t0, RMul(Rat(0 - 10, 7), ResonatorAt(x, i - 1))) ELSE t0
  IN IF i >= 2 THEN RAdd(t1, RMul(Rat(3, 4), ResonatorAt(x, i - 2))) ELSE t1

Resonator(x) == [k \in 1..Len(x) |-> ResonatorAt(x, k - 1)]

OnePoleFns == {"onepole_lowpass", "onepoleLP", "onepole_highpass", "onepoleHP"}

BandFns == {"bandpassSafe", "bandpassFilter"}

FilterFns == OnePoleFns \cup BandFns \cup {"simple_bandpass", "lowpassFilter", "resonator"}

MaxFilterLen == 2

MaxOrder == 3

FilterVals == {0 - 1, 0, 2}

FilterLows == {0 - 110, 0, 110}

FilterHighs == {0 - 110, 0, 220, 550}

\* the arguments a function takes; the others are fixed
FilterArgs(fn) ==
  [lo : IF fn \in BandFns \cup {"simple_bandpass", "onepole_highpass", "onepoleHP"}
        THEN FilterLows ELSE {0},
   hi : IF fn \in BandFns \cup {"simple_bandpass", "lowpassFilter", "onepole_lowpass", "onepoleLP"}
        THEN FilterHighs ELSE {0},
   order : IF fn \in BandFns \cup {"lowpassFilter"} THEN (0 - 1)..MaxOrder ELSE {0}]

\* fl.y is the array the function works on and returns; fl.nLow and fl.nHigh
\* count the low-pass and the high-pass stages run, fl.cuts lists the cutoffs
\* of the low-pass passes computed, fl.hiUsed and fl.loUsed are the cutoffs
\* after clamping, fl.raised tells whether an allocation threw
InitFilter ==
  /\ rs = Idle
  /\ ev = Idle
  /\ ck = Idle
  /\ snr = Idle
  /\ gen = Idle
  /\ nm = Idle
  /\ rg = Idle
  /\ hp = Idle
  /\ \E fn \in FilterFns, n \in 0..MaxFilterLen :
       \E x \in [1..n -> FilterVals], a \in FilterArgs(fn) :
         fl = [fn |-> fn, x |-> Slice(x), fs |-> FilterFs, lo |-> a.lo, hi |-> a.hi,
               hiUsed |-> a.hi, loUsed |-> a.lo,
               order |-> a.order, pc |-> "call", k |-> 0, y |-> <<>>,
               nLow |-> 0, nHigh |-> 0, cuts |-> <<>>, raised |-> FALSE]

\* onepole_lowpass, onepoleLP (cutoff fl.hi), onepole_highpass, onepoleHP
\* (cutoff fl.lo)
FilterOnePole ==
  /\ fl.pc = "call" /\ fl.fn \in OnePoleFns
  /\ LET low == fl.fn \in {"onepole_lowpass", "onepoleLP"}
         fc == IF low THEN fl.hi ELSE fl.lo
     IN fl' = [fl EXCEPT !.pc = "done",
                 !.raised = NewArrayThrows(Len(fl.x)),
                 !.y = IF low THEN OnePoleLow(fl.x, fc, fl.fs) ELSE OnePoleHigh(fl.x, fc, fl.fs),
                 !.nLow = IF low THEN 1 ELSE 0,
                 !.nHigh = IF low THEN 0 ELSE 1,
                 !.cuts = IF low /\ fc > 0 THEN <<fc>> ELSE <<>>]
  /\ UNCHANGED <<rs, ev, ck, snr, gen, nm, rg, hp>>

\* simple_bandpass: the low-pass unless f_hi >= fs / 2, the high-pass unless
\* f_lo <= 0
FilterSimpleBandpass ==
  /\ fl.pc = "call" /\ fl.fn = "simple_bandpass"
  /\ LET doLow == ~(2 * fl.hi >= fl.fs)
         doHigh == ~(fl.lo <= 0)
         y1 == IF doLow THEN OnePoleLow(fl.x, fl.hi, fl.fs) ELSE fl.x
         y2 == IF doHigh THEN OnePoleHigh(y1, fl.lo, fl.fs) ELSE y1
     IN fl' = [fl EXCEPT !.pc = "done", !.y = y2,
                 !.raised = NewArrayThrows(Len(fl.x)),
                 !.nLow = IF doLow THEN 1 ELSE 0,
                 !.nHigh = IF doHigh THEN 1 ELSE 0,
                 !.cuts = IF doLow /\ fl.hi > 0 THEN <<fl.hi>> ELSE <<>>]
  /\ UNCHANGED <<rs, ev, ck, snr, gen, nm, rg, hp>>

\* bandpassSafe, bandpassFilter, lowpassFilter: `const y = x.slice()` and
\* the clamped cutoffs
FilterCascadeCall ==
  /\ fl.pc = "call" /\ fl.fn \in BandFns \cup {"lowpassFilter"}
  /\ fl' = [fl EXCEPT !.pc = "low", !.k = 0, !.y = fl.x,
              !.hiUsed = IF fl.fn = "bandpassSafe" THEN SafeClamp(fl.hi, fl.fs)
                         ELSE PcgClamp(fl.hi, fl.fs),
              !.loUsed = IF fl.fn = "bandpassSafe" THEN fl.lo ELSE PcgClamp(fl.lo, fl.fs)]
  /\ UNCHANGED <<rs, ev, ck, snr, gen, nm, rg, hp>>

\* `for (k = 0; k < order / 2; k++)` of the band-passes,
\* `for (ord = 0; ord < order; ord++)` of lowpassFilter
InLoop(fn, k, order) == IF fn = "lowpassFilter" THEN k < order ELSE 2 * k < order

FilterLowStage ==
  /\ fl.pc = "low" /\ InLoop(fl.fn, fl.k, fl.order)
  /\ fl' = [fl EXCEPT !.k = fl.k + 1,
              !.y = IF fl.fn = "bandpassSafe" THEN OnePoleLow(fl.y, fl.hiUsed, fl.fs)
                    ELSE PcgLowStage(fl.y, fl.hiUsed, fl.fs),
              !.nLow = fl.nLow + 1,
              !.cuts = IF fl.fn = "bandpassSafe" /\ fl.hiUsed <= 0 THEN fl.cuts
                       ELSE Append(fl.cuts, fl.hiUsed)]
  /\ UNCHANGED <<rs, ev, ck, snr, gen, nm, rg, hp>>

FilterLowEnd ==
  /\ fl.pc = "low" /\ ~InLoop(fl.fn, fl.k, fl.order)
  /\ fl' = [fl EXCEPT !.k = 0, !.pc = IF fl.fn = "lowpassFilter" THEN "done" ELSE "high"]
  /\ UNCHANGED <<rs, ev, ck, snr, gen, nm, rg, hp>>

FilterHighStage ==
  /\ fl.pc = "high" /\ InLoop(fl.fn, fl.k, fl.order)
  /\ fl' = [fl EXCEPT !.k = fl.k + 1,
              !.y = IF fl.fn = "bandpassSafe" THEN OnePoleHigh(fl.y, fl.loUsed, fl.fs)
                    ELSE PcgHighStage(fl.y, fl.loUsed, fl.fs),
              !.nHigh = fl.nHigh + 1]
  /\ UNCHANGED <<rs, ev, ck, snr, gen, nm, rg, hp>>

FilterHighEnd ==
  /\ fl.pc = "high" /\ ~InLoop(fl.fn, fl.k, fl.order)
  /\ fl' = [fl EXCEPT !.pc = "done"]
  /\ UNCHANGED <<rs, ev, ck, snr, gen, nm, rg, hp>>

FilterResonator ==
  /\ fl.pc = "call" /\ fl.fn = "resonator"
  /\ fl' = [fl EXCEPT !.pc = "done", !.y = Resonator(fl.x),
              !.raised = NewArrayThrows(Len(fl.x))]
  /\ UNCHANGED <<rs, ev, ck, snr, gen, nm, rg, hp>>

NextFilter ==
  \/ FilterOnePole \/ FilterSimpleBandpass \/ FilterCascadeCall \/ FilterLowStage
  \/ FilterLowEnd \/ FilterHighStage \/ FilterHighEnd \/ FilterResonator

SpecFilter == InitFilter /\ [][NextFilter]_vars

\* C17 (as claimed): with a cutoff <= 0 each one-pole low-pass returns its
\* input element for element: onepole_lowpass, onepoleLP and lowpassFilter.
C17_Passthrough ==
  (fl.pc = "done" /\ fl.fn \in {"onepole_lowpass", "onepoleLP", "lowpassFilter"} /\ fl.hi <= 0) =>
    fl.y = fl.x

\* C18: every filter returns without raising a sequence of the length of
\* its input, the empty input and cutoffs at or above fs / 2 included, and
\* every low-pass pass of a band-pass runs at a cutoff strictly below fs / 2.
C18_FilterTotal ==
  fl.pc = "done" =>
    /\ ~fl.raised
    /\ Len(fl.y) = Len(fl.x)
    /\ fl.fn \in BandFns \cup {"simple_bandpass"} =>
         \A j \in 1..Len(fl.cuts) : 2 * fl.cuts[j] < fl.fs

C18_Witness ==
  /\ fl.pc = "done" /\ fl.fn = "bandpassFilter" /\ 2 * fl.hi >= fl.fs
  /\ Len(fl.cuts) = 2 /\ Len(fl.x) = MaxFilterLen /\ fl.y # fl.x

\* the recursion as claimed, from the state 0 before the first sample
RECURSIVE RecursionAt(_, _, _)
RecursionAt(x, a, i) ==
  RAdd(RMul(a, IF i = 0 THEN Zero ELSE RecursionAt(x, a, i - 1)),
       RMul(RSub(FromInt(1), a), x[i + 1]))

\* C19 (as claimed): for a cutoff > 0 the low-pass output is
\* y[i] = a y[i-1] + (1 - a) x[i] at every index, y[0] = (1 - a) x[0]
\* included, and the high-pass output is x[i] minus that at every index.
C19_Recursion ==
  (fl.pc = "done" /\ fl.fn \in OnePoleFns \cup {"lowpassFilter"}) =>
    \A i \in 0..(Len(fl.x) - 1) :
      /\ (fl.fn \in {"onepole_lowpass", "onepoleLP"} /\ fl.hi > 0) =>
           fl.y[i + 1] = RecursionAt(fl.x, Coef(fl.hi, fl.fs), i)
      /\ (fl.fn = "lowpassFilter" /\ fl.hi > 0 /\ fl.order = 1) =>
           fl.y[i + 1] = RecursionAt(fl.x, Coef(fl.hiUsed, fl.fs), i)
      /\ (fl.fn \in {"onepole_highpass", "onepoleHP"} /\ fl.lo > 0) =>
           fl.y[i + 1] = RSub(fl.x[i + 1], RecursionAt(fl.x, Coef(fl.lo, fl.fs), i))

\* C20 (as claimed): a band-pass of even order >= 0 runs order / 2 low-pass
\* and order / 2 high-pass stages, for no order >= 0 more than `order`
\* stages in all, and for an order <= 0 it returns the values of its input.
C20_StageCount ==
  (fl.pc = "done" /\ fl.fn \in BandFns) =>
    /\ (fl.order >= 0 /\ fl.order % 2 = 0) =>
         2 * fl.nLow = fl.order /\ 2 * fl.nHigh = fl.order
    /\ fl.order >= 0 => fl.nLow + fl.nHigh <= fl.order
    /\ fl.order <= 0 => fl.y = fl.x

(***************************************************************************)
(* Arrays as objects.  hp.heap is the sequence of the arrays allocated so  *)
(* far, an array being named by its position; hp.arg names the array the   *)
(* caller passed, hp.y the array the local variable of the function (y,    *)
(* out, e, result) refers to, hp.ret the array returned.  What is of       *)
(* interest is which array a statement writes and which one is returned:   *)
(* the values written are left open.                                       *)
(***************************************************************************)
ResampleFns == {"pcg.resampleToLength", "fpcg.resampleToLength", "resampleTo"}

HeapFns ==
  FilterFns \cup ResampleFns
    \cup {"pcg.addNoiseSNR", "lung.addNoiseSNR", "overlayCrackles", "synthWheezeRhythmic"}

MaxHeapLen == 2

MaxWrites == 1

HeapVals == {0, 1}

\* the arguments besides the array: cutoffs and order of a filter, the
\* target length of a resampler
HeapArgs(fn, n) ==
  IF fn \in FilterFns
  THEN {[lo |-> a.lo, hi |-> a.hi, order |-> a.order, count |-> n] :
          a \in {b \in FilterArgs(fn) : b.order \in {0, 2}}}
  ELSE [lo : {0}, hi : {0}, order : {0},
        count : IF fn \in ResampleFns THEN {n, n + 1} ELSE {n}]

\* how the function binds its local variable on entry: "alias" for
\* `let y = x`, "slice" for x.slice(), "new" for new Array(n)
EntryKind(fn, a, n) ==
  CASE fn = "simple_bandpass" -> "alias"
    [] fn \in {"onepole_lowpass", "onepoleLP"} -> IF a.hi <= 0 THEN "slice" ELSE "new"
    [] fn \in {"onepole_highpass", "onepoleHP"} -> IF a.lo <= 0 THEN "slice" ELSE "new"
    [] fn \in BandFns \cup {"lowpassFilter", "overlayCrackles", "synthWheezeRhythmic"} -> "slice"
    [] fn \in ResampleFns -> IF a.count = n THEN "slice" ELSE "new"
    [] OTHER -> "new"

\* the number of statements `y = f(y)` that bind the local variable to the
\* array a callee returned; wz of synthWheezeRhythmic is counted as one
Rebinds(fn, a, fs) ==
  CASE fn = "simple_bandpass" ->
         (IF 2 * a.hi >= fs THEN 0 ELSE 1) + (IF a.lo <= 0 THEN 0 ELSE 1)
    [] fn = "bandpassSafe" -> IF a.order <= 0 THEN 0 ELSE 2 * ((a.order + 1) \div 2)
    [] fn = "synthWheezeRhythmic" -> 1
    [] OTHER -> 0

\* whether the function stores into the array its local variable refers to
WritesInPlace(fn, a, n) ==
  /\ fn \notin {"simple_bandpass", "bandpassSafe"}
  /\ ~(EntryKind(fn, a, n) = "slice" /\ fn \in OnePoleFns \cup ResampleFns)

InitHeap ==
  /\ rs = Idle
  /\ ev = Idle
  /\ ck = Idle
  /\ snr = Idle
  /\ gen = Idle
  /\ nm = Idle
  /\ rg = Idle
  /\ fl = Idle
  /\ \E fn \in HeapFns, n \in 1..MaxHeapLen :
       \E x \in [1..n -> HeapVals], a \in HeapArgs(fn, n) :
         hp = [fn |-> fn, a |-> a, fs |-> FilterFs, heap |-> <<x>>, arg |-> 1, before |-> x,
               pc |-> "call", y |-> 0, ret |-> 0, rebinds |-> 0, writes |-> 0]

HeapCall ==
  /\ hp.pc = "call"
  /\ LET kind == EntryKind(hp.fn, hp.a, Len(hp.before))
         fresh == IF kind = "slice" THEN hp.heap[hp.arg] ELSE [k \in 1..hp.a.count |-> 0]
     IN hp' = [hp EXCEPT !.pc = "body",
                 !.y = IF kind = "alias" THEN hp.arg ELSE Len(hp.heap) + 1,
                 !.heap = IF kind = "alias" THEN hp.heap ELSE Append(hp.heap, fresh)]
  /\ UNCHANGED <<rs, ev, ck, snr, gen, nm, rg, fl>>

\* `y = onepole_lowpass(y, ...)` and the like: the callee returns an array
\* of its own, of the length of the one it was given
HeapRebind ==
  /\ hp.pc = "body" /\ hp.rebinds < Rebinds(hp.fn, hp.a, hp.fs)
  /\ \E c \in [1..Len(hp.heap[hp.y]) -> HeapVals] :
       hp' = [hp EXCEPT !.rebinds = hp.rebinds + 1, !.y = Len(hp.heap) + 1,
                        !.heap = Append(hp.heap, c)]
  /\ UNCHANGED <<rs, ev, ck, snr, gen, nm, rg, fl>>

\* `y[i] = ...`, `out[j0 + k] += ...`, `e[i] /= eMax`
HeapWrite ==
  /\ hp.pc = "body" /\ hp.writes < MaxWrites
  /\ WritesInPlace(hp.fn, hp.a, Len(hp.before))
  /\ \E i \in 1..Len(hp.heap[hp.y]), v \in HeapVals :
       hp' = [hp EXCEPT !.writes = hp.writes + 1, !.heap[hp.y][i] = v]
  /\ UNCHANGED <<rs, ev, ck, snr, gen, nm, rg, fl>>

HeapReturn ==
  /\ hp.pc = "body" /\ hp.rebinds = Rebinds(hp.fn, hp.a, hp.fs)
  /\ hp' = [hp EXCEPT !.pc = "returned", !.ret = hp.y]
  /\ UNCHANGED <<rs, ev, ck, snr, gen, nm, rg, fl>>

NextHeap == HeapCall \/ HeapRebind \/ HeapWrite \/ HeapReturn

SpecHeap == InitHeap /\ [][NextHeap]_vars

\* C13 (as claimed): no engine function changes the array passed to it and
\* none returns that array: the result is an array allocated by the call.
C13_NoAliasing ==
  /\ hp.pc # "idle" => hp.heap[hp.arg] = hp.before
  /\ hp.pc = "returned" => hp.ret # hp.arg

(***************************************************************************)
(* gaussian(rand): the three copies (pcg.ts, the fetal and the lung module *)
(* of NotFound.tsx) are the same text.  The source handed in is any        *)
(* function returning draws in [0,1); rg.log lists the draws it has        *)
(* returned, so its position is Len(rg.log).  The value returned,          *)
(* sqrt(-2 ln u) cos(2 pi v), is kept as the pair <<u, v>> it is computed  *)
(* from.                                                                   *)
(***************************************************************************)
GaussImpls == {"pcg.gaussian", "fpcg.gaussian", "lung.gaussian"}

MaxGaussCalls == 2

RECURSIVE ZerosIn(_, _, _)
ZerosIn(log, from, to) ==
  IF from > to THEN 0
  ELSE (IF log[to] = Zero THEN 1 ELSE 0) + ZerosIn(log, from, to - 1)

\* the draws the source may return next: at most MaxZeroDraws zeros in all
GaussDraws == {u \in U : u = Zero => ZerosIn(rg.log, 1, Len(rg.log)) < MaxZeroDraws}

InitGauss ==
  /\ rs = Idle
  /\ ev = Idle
  /\ ck = Idle
  /\ snr = Idle
  /\ gen = Idle
  /\ nm = Idle
  /\ hp = Idle
  /\ fl = Idle
  /\ \E impl \in GaussImpls :
       rg = [impl |-> impl, pc |-> "u", u |-> Zero, v |-> Zero, log |-> <<>>,
             before |-> 0, calls |-> <<>>]

\* the loop conditions dropped
KeepsDrawingNever(x) == FALSE

\* `while (u === 0)`, `while (v === 0)`
KeepsDrawing(x) == x = Zero

\* one iteration of `while (u === 0) u = rng();`
GaussDrawU ==
  /\ rg.pc = "u" /\ KeepsDrawing(rg.u)
  /\ \E d \in GaussDraws : rg' = [rg EXCEPT !.u = d, !.log = Append(rg.log, d)]
  /\ UNCHANGED <<rs, ev, ck, snr, gen, nm, hp, fl>>

\* one iteration of `while (v === 0) v = rng();`, the first loop being left
GaussDrawV ==
  /\ rg.pc = "u" /\ ~KeepsDrawing(rg.u) /\ KeepsDrawing(rg.v)
  /\ \E d \in GaussDraws : rg' = [rg EXCEPT !.v = d, !.log = Append(rg.log, d)]
  /\ UNCHANGED <<rs, ev, ck, snr, gen, nm, hp, fl>>

\* `return Math.sqrt(-2.0 * Math.log(u)) * Math.cos(2.0 * Math.PI * v);`
GaussReturn ==
  /\ rg.pc = "u" /\ ~KeepsDrawing(rg.u) /\ ~KeepsDrawing(rg.v)
  /\ rg' = [rg EXCEPT !.pc = "returned",
              !.calls = Append(rg.calls, [u |-> rg.u, v |-> rg.v,
                                          before |-> rg.before, after |-> Len(rg.log)])]
  /\ UNCHANGED <<rs, ev, ck, snr, gen, nm, hp, fl>>

\* the next call on the same source: `let u = 0, v = 0;`
GaussCall ==
  /\ rg.pc = "returned" /\ Len(rg.calls) < MaxGaussCalls
  /\ rg' = [rg EXCEPT !.pc = "u", !.u = Zero, !.v = Zero, !.before = Len(rg.log)]
  /\ UNCHANGED <<rs, ev, ck, snr, gen, nm, hp, fl>>

NextGauss == GaussDrawU \/ GaussDrawV \/ GaussReturn \/ GaussCall

SpecGauss == InitGauss /\ [][NextGauss]_vars

\* C16: gaussian never hands a zero draw to the Box-Muller formula, for
\* either input, and a call consumes two draws plus one for every zero it
\* rejected: exactly two when no draw was zero.
C16_ZeroRejected ==
  rg.pc # "idle" =>
    \A c \in 1..Len(rg.calls) :
      /\ rg.calls[c].u # Zero /\ rg.calls[c].v # Zero
      /\ rg.calls[c].after =
           rg.calls[c].before + 2 + ZerosIn(rg.log, rg.calls[c].before + 1, rg.calls[c].after)

C16_Witness ==
  /\ rg.pc = "returned" /\ Len(rg.calls) = 2
  /\ rg.calls[1].after = 2
  /\ rg.calls[2].after = 5 /\ rg.log[4] = Zero

\* ---------------------------------------------------------------------------
\* The chest resonator of a beat (pcg.ts resonator, called by
\* simulateSingleBeat with f0 = 120 * 0.8 = 96, zeta = 0.4 * 0.6 = 0.24 and
\* fs = 1000).  Samples are fixed-point numbers in units of 1 / ResUnit.
\* ---------------------------------------------------------------------------

ResUnit == 10 * 100

\* b0 = 1 - exp(-zeta w0), a1 = -2 exp(-zeta w0) cos(w0), a2 = exp(-2 zeta w0)
\* at w0 = 2 pi 96 / 1000: 0.1348, -1.4251 and 0.7486
ResCoef == [b0 |-> 135, a1 |-> 0 - 1425, a2 |-> 749]

ResMul(c, v) == (c * v) \div ResUnit

MaxResLen == 7

ResVals == {0 - ResUnit, 0, ResUnit}

InitResonator ==
  /\ rs = Idle
  /\ ev = Idle
  /\ ck = Idle
  /\ snr = Idle
  /\ gen = Idle
  /\ nm = Idle
  /\ rg = Idle
  /\ hp = Idle
  /\ \E n \in 1..MaxResLen : \E x \in [1..n -> ResVals] :
       fl = [pc |-> "loop", x |-> x, i |-> 0, y |-> [k \in 1..n |-> 0]]

\* one iteration of the loop: y[i] = b0 * x[i]; y[i] += a1 * y[i-1];
\* y[i] += a2 * y[i-2]
ResonatorStep ==
  /\ fl.pc = "loop"
  /\ fl.i < Len(fl.x)
  /\ LET i == fl.i
         t0 == ResMul(ResCoef.b0, fl.x[i + 1])
         t1 == IF i >= 1 THEN t0 + ResMul(ResCoef.a1, fl.y[i]) ELSE t0
         t2 == IF i >= 2 THEN t1 + ResMul(ResCoef.a2, fl.y[i - 1]) ELSE t1
     IN fl' = [fl EXCEPT !.y[i + 1] = t2, !.i = i + 1]
  /\ UNCHANGED <<rs, ev, ck, snr, gen, nm, rg, hp>>

ResonatorReturn ==
  /\ fl.pc = "loop"
  /\ fl.i = Len(fl.x)
  /\ fl' = [fl EXCEPT !.pc = "returned"]
  /\ UNCHANGED <<rs, ev, ck, snr, gen, nm, rg, hp>>

NextResonator == ResonatorStep \/ ResonatorReturn

SpecResonator == InitResonator /\ [][NextResonator]_vars

ResPeak(y) == MaxAbs(y, Len(y))

\* C21: the resonator is stable: its response to a bounded input stays
\* bounded.  The two poles of the intended filter lie at radius
\* exp(-zeta w0) = 0.865, which makes the sum of the absolute impulse
\* response 1.19, so no output sample exceeds twice the peak of the input.
C21_Bounded ==
  fl.pc \in {"loop", "returned"} => ResPeak(fl.y) <= 2 * ResPeak(fl.x)

\* ---------------------------------------------------------------------------
\* Propagation of the fetal signal through the two tissue kernels
\* (NotFound.tsx, simulate_fpcg "Propagation model", convolve and
\* expo_conv_kernel).
\* ---------------------------------------------------------------------------

\* Math.exp(-(beta / fs)), the decay of a kernel from one sample to the next
ExpoDecay == Rat(1, 2)

RECURSIVE RPow(_, _)
RPow(q, k) == IF k = 0 THEN FromInt(1) ELSE RMul(q, RPow(q, k - 1))

\* expo_conv_kernel: Nmax + 1 samples, zero before N0 and
\* A * exp(-(i - N0) * (beta / fs)) from N0 on (tail = Nmax - N0)
ExpoConvKernel(N0, tail, A) ==
  [k \in 1..(N0 + tail + 1) |->
     IF k - 1 >= N0 THEN RMul(FromInt(A), RPow(ExpoDecay, k - 1 - N0)) ELSE Zero]

\* convolve after the first p executions of `out[i + j] += ai * b[j]`
RECURSIVE ConvolveAcc(_, _, _)
ConvolveAcc(a, b, p) ==
  IF p = 0 THEN [k \in 1..(Len(a) + Len(b) - 1) |-> Zero]
  ELSE LET i == (p - 1) \div Len(b)
           j == (p - 1) % Len(b)
           out == ConvolveAcc(a, b, p - 1)
       IN [out EXCEPT ![i + j + 1] = RAdd(out[i + j + 1], RMul(a[i + 1], b[j + 1]))]

Convolve(a, b) == ConvolveAcc(a, b, Len(a) * Len(b))

KernelRaw(h) == h

\* h_total[i] = h_total[i] / (h_norm || 1)
KernelNormalize(h) ==
  LET h_norm == Sum(h, Len(h))
  IN [k \in 1..Len(h) |-> RDiv(h[k], IF h_norm = Zero THEN FromInt(1) ELSE h_norm)]

\* .slice(0, signal_f.length)
PropSlice(y, n) == SubSeq(y, 1, Min(n, Len(y)))

MaxKerTail == 2

MaxPropLen == 3

KerDelays == {0, 1}

KerAmps == {0 - 2, 0, 1}

PropVals == {0 - 1, 0, 2}

Kernels ==
  {ExpoConvKernel(N0, tail, A) : N0 \in KerDelays, tail \in 0..MaxKerTail, A \in KerAmps}

InitProp ==
  /\ rs = Idle
  /\ ev = Idle
  /\ ck = Idle
  /\ gen = Idle
  /\ nm = Idle
  /\ rg = Idle
  /\ hp = Idle
  /\ fl = Idle
  /\ \E h1 \in Kernels, h2 \in Kernels, n \in 0..MaxPropLen :
       \E sig \in [1..n -> PropVals] :
         snr = [pc |-> "call", h1 |-> h1, h2 |-> h2, signal_f |-> Rats(sig),
                h_norm |-> Zero, h_total |-> <<>>, signal_f_prop |-> <<>>]

\* h_total = convolve(h1, h2), normalised by its sum
PropKernel ==
  /\ snr.pc = "call"
  /\ LET h == Convolve(snr.h1, snr.h2)
     IN snr' = [snr EXCEPT !.pc = "kernel", !.h_norm = Sum(h, Len(h)),
                           !.h_total = KernelNormalize(h)]
  /\ UNCHANGED <<rs, ev, ck, gen, nm, rg, hp, fl>>

\* signal_f_prop = convolve(signal_f, h_total).slice(0, signal_f.length)
PropSignal ==
  /\ snr.pc = "kernel"
  /\ snr' = [snr EXCEPT !.pc = "done",
                        !.signal_f_prop = PropSlice(Convolve(snr.signal_f, snr.h_total),
                                                    Len(snr.signal_f))]
  /\ UNCHANGED <<rs, ev, ck, gen, nm, rg, hp, fl>>

NextProp == PropKernel \/ PropSignal

SpecProp == InitProp /\ [][NextProp]_vars

\* sum over j = from..k of signal[j] * h[k - j], indices from 0
RECURSIVE CausalSum(_, _, _, _)
CausalSum(signal, h, k, from) ==
  IF from > k THEN Zero
  ELSE RAdd(IF k - from < Len(h) THEN RMul(signal[from + 1], h[k - from + 1]) ELSE Zero,
            CausalSum(signal, h, k, from + 1))

\* C22: the combined kernel has length len(h1) + len(h2) - 1 and sums to 1
\* after normalisation whenever its raw sum is not zero; the propagated
\* signal has the length of the raw fetal signal and its sample k is the
\* sum over j <= k of signal[j] * h[k - j].
C22_Propagation ==
  /\ snr.pc \in {"kernel", "done"} =>
       /\ Len(snr.h_total) = Len(snr.h1) + Len(snr.h2) - 1
       /\ snr.h_norm # Zero => Sum(snr.h_total, Len(snr.h_total)) = FromInt(1)
  /\ snr.pc = "done" =>
       /\ Len(snr.signal_f_prop) = Len(snr.signal_f)
       /\ \A k \in 0..(Len(snr.signal_f) - 1) :
            snr.signal_f_prop[k + 1] = CausalSum(snr.signal_f, snr.h_total, k, 0)

C22_Witness ==
  /\ snr.pc = "done"
  /\ Len(snr.h1) = 3 /\ Len(snr.h2) = 4
  /\ Len(snr.h_total) = 6 /\ snr.h_norm \notin {Zero, FromInt(1)}
  /\ Len(snr.signal_f) = 3 /\ snr.signal_f[1] = FromInt(2)
  /\ snr.signal_f_prop[3] # Zero

\* ---------------------------------------------------------------------------
\* The breath envelope (NotFound.tsx oneCycleRandom and
\* synthBreathRandomCycles).  Phase lengths are counted in samples.
\* ---------------------------------------------------------------------------

\* raisedCosine(n): 0.5 * (1 - cos(pi * i / n)) for i = 0 .. n - 1
RaisedCosine(n) ==
  CASE n = 1 -> <<Zero>>
    [] n = 2 -> <<Zero, Rat(1, 2)>>
    [] n = 3 -> <<Zero, Rat(1, 4), Rat(3, 4)>>

Reverse(s) == [k \in 1..Len(s) |-> s[Len(s) + 1 - k]]

RECURSIVE RMaxOf(_, _)
RMaxOf(s, k) ==
  IF k = 0 THEN Zero
  ELSE LET m == RMaxOf(s, k - 1) IN IF RLt(m, s[k]) THEN s[k] ELSE m

\* half.concat(half.slice().reverse()), padded with zeros up to n samples and
\* divided by Math.max(...env, 1e-9); the first n samples, times amp
PhaseEnv(n, amp) ==
  LET half == RaisedCosine(Max(1, n \div 2))
      both == half \o Reverse(half)
      full == both \o [k \in 1..(n - Len(both)) |-> Zero]
      top == RMaxOf(full, Len(full))
  IN [k \in 1..n |-> IF top = Zero THEN Zero ELSE RMul(amp, RDiv(full[k], top))]

\* env of one cycle: inspiration, gap, expiration, pause
CycleEnv(n_insp, n_mid, n_exp, n_pause, insp_amp, exp_amp) ==
  PhaseEnv(n_insp, insp_amp) \o [k \in 1..n_mid |-> Zero]
    \o PhaseEnv(n_exp, exp_amp) \o [k \in 1..n_pause |-> Zero]

\* insp_amp_range and exp_amp_range: the defaults [0.9, 1.2] and [0.8, 1.0],
\* and a quieter configuration
AmpRanges ==
  {[insp |-> <<Rat(9, 10), Rat(6, 5)>>, exp |-> <<Rat(4, 5), FromInt(1)>>],
   [insp |-> <<Rat(1, 2), FromInt(1)>>, exp |-> <<Rat(1, 2), Rat(4, 5)>>]}

MaxPhase == 4

BreathCycleCounts == {0, 1, 2}

InitBreath ==
  /\ rs = Idle
  /\ ev = Idle
  /\ ck = Idle
  /\ snr = Idle
  /\ gen = Idle
  /\ nm = Idle
  /\ rg = Idle
  /\ fl = Idle
  /\ \E cfg \in AmpRanges, nCycles \in BreathCycleCounts :
       hp = [pc |-> "loop", cfg |-> cfg, nCycles |-> nCycles, i |-> 0,
             y_len |-> 0, t_len |-> 0, env_all |-> <<>>]

\* one iteration: oneCycleRandom(base) and the three concats
BreathCycle ==
  /\ hp.pc = "loop"
  /\ hp.i < hp.nCycles
  /\ \E u1 \in U, u2 \in U, n_insp \in 0..MaxPhase, n_exp \in 0..MaxPhase :
       LET insp_amp == Lerp(hp.cfg.insp[1], hp.cfg.insp[2], u1)
           exp_amp == Lerp(hp.cfg.exp[1], hp.cfg.exp[2], u2)
           env == CycleEnv(n_insp, 1, n_exp, 1, insp_amp, exp_amp)
           N == n_insp + 1 + n_exp + 1
       IN hp' = [hp EXCEPT !.i = hp.i + 1, !.y_len = hp.y_len + N,
                           !.t_len = hp.t_len + N, !.env_all = hp.env_all \o env]
  /\ UNCHANGED <<rs, ev, ck, snr, gen, nm, rg, fl>>

BreathReturn ==
  /\ hp.pc = "loop"
  /\ hp.i = hp.nCycles
  /\ hp' = [hp EXCEPT !.pc = "returned"]
  /\ UNCHANGED <<rs, ev, ck, snr, gen, nm, rg, fl>>

NextBreath == BreathCycle \/ BreathReturn

SpecBreath == InitBreath /\ [][NextBreath]_vars

\* C23: the envelope returned by synthBreathRandomCycles has the length of y
\* and of t and each of its values lies in [0, 1], for every amplitude
\* range of the configuration, the defaults included.
C23_EnvelopeRange ==
  hp.pc = "returned" =>
    /\ Len(hp.env_all) = hp.y_len /\ Len(hp.env_all) = hp.t_len
    /\ \A k \in 1..Len(hp.env_all) :
         RGeq(hp.env_all[k], Zero) /\ RGeq(FromInt(1), hp.env_all[k])

\* ---------------------------------------------------------------------------
\* The interpolation of the resamplers, sample by sample.
\* ---------------------------------------------------------------------------

\* `idx` of the loop body for output index i
ResampleIdx(impl, xs, ys, target, i) ==
  IF impl = "fpcg"
  THEN LET tMin == Read(xs, 0)
           tMax == Read(xs, Len(xs) - 1)
           t    == RAdd(tMin, RDiv(RMul(RSub(tMax, tMin), FromInt(i)),
                                   FromInt(Max(1, target - 1))))
       IN RMul(RDiv(RSub(t, tMin), RSub(tMax, tMin)), FromInt(Len(ys) - 1))
  ELSE RDiv(FromInt(i * (Len(ys) - 1)), FromInt(Max(1, target - 1)))

Between(v, a, b) ==
  \/ RGeq(v, a) /\ RGeq(b, v)
  \/ RGeq(v, b) /\ RGeq(a, v)

\* the output sample i was interpolated inside the source
InterpolatedInside(impl, ys, target, i, v) ==
  LET idx == ResampleIdx(impl, TimeAxis(Len(ys)), ys, target, i)
  IN /\ IsNum(idx)
     /\ LET i0 == RFloor(idx)
            i1 == Min(Len(ys) - 1, i0 + 1)
            w  == RSub(idx, FromInt(i0))
        IN /\ 0 <= i0 /\ i0 <= i1 /\ i1 <= Len(ys) - 1
           /\ RGeq(w, Zero) /\ RLt(w, FromInt(1))
           /\ Between(v, Read(ys, i0), Read(ys, i1))

\* C25: for a source of length >= 1 and a target >= 1 each resampler reads
\* only indices 0 <= i0 <= i1 <= len - 1 with a weight 0 <= w < 1, every
\* output lies between its two bracketing samples, the first output is the
\* first source sample and, for a target >= 2, the last output is the last
\* source sample.
C25_Interpolation ==
  (Len(rs.ys) >= 1 /\ rs.target >= 1 /\ rs.pc \in {"loop", "done"}) =>
    /\ ~SameLength(rs.ys, rs.target) =>
         \A i \in 0..(rs.i - 1) :
           InterpolatedInside(rs.impl, rs.ys, rs.target, i, rs.out[i + 1])
    /\ (rs.pc = "done" \/ rs.i >= 1) => rs.out[1] = FromInt(rs.ys[1])
    /\ (rs.pc = "done" /\ rs.target >= 2) =>
         rs.out[rs.target] = FromInt(rs.ys[Len(rs.ys)])

\* C26: the fetal resampleToLength(xs, ys, L) returns the same sequence as
\* the index-based resamplers for every ys of length >= 1 with its time
\* axis and every L >= 1, a one-sample source and L = 1 included.
C26_SameAsIndexBased ==
  (rs.impl = "fpcg" /\ rs.pc = "done" /\ Len(rs.ys) >= 1 /\ rs.target >= 1) =>
    /\ rs.out = ResampleAll("pcg", rs.ys, rs.target)
    /\ rs.out = ResampleAll("lung", rs.ys, rs.target)

\* ---------------------------------------------------------------------------
\* The envelope of a contraction (NotFound.tsx generate_uc_envelope).
\* ---------------------------------------------------------------------------

\* env_seg[j] of a contraction of L samples: the rise is written first, then
\* the plateau, then the fall, a later write replacing an earlier one.  The
\* raised cosines 0.5 -+ 0.5 cos(pi i / n) are 0 and 1 at i = 0 and strictly
\* between 0 and 1 for 0 < i < n; they are held by the ramp i / n.
UcEnvSeg(frac, L, j) ==
  LET Lr == UcLr(frac, L)
      Lf == UcLf(frac, L)
      Lp == UcLp(frac, L)
  IN IF j >= Lr + Lp /\ j < Lr + Lp + Lf THEN Rat(Lf - (j - Lr - Lp), Lf)
     ELSE IF j >= Lr /\ j < Lr + Lp THEN FromInt(1)
     ELSE IF j >= 0 /\ j < Lr THEN Rat(j, Lr)
     ELSE Zero

\* uc_env[i] after the events were rendered with
\* `uc_env[i] = Math.max(uc_env[i], env_seg[j] ?? 0)`; an index outside the
\* array reads undefined
UcEnvAt(events, frac, total_len, i) ==
  IF i \notin 0..(total_len - 1) THEN NaN
  ELSE LET vals == {UcEnvSeg(frac, events[k].end - events[k].start, i - events[k].start) :
                      k \in {m \in 1..Len(events) : events[m].start <= i /\ i < events[m].end}}
       IN IF vals = {} THEN Zero
          ELSE CHOOSE v \in vals : \A w \in vals : RGeq(v, w)

\* C28: for every contraction with rise fraction + fall fraction <= 1 the
\* recorded peak index lies strictly between start and end, and the envelope
\* at the peak index is 1, also for a contraction clipped at the end of the
\* waveform.
C28_UcPeak ==
  (ev.pc # "idle" /\ ev.fn = "uc" /\ RGeq(FromInt(1), RAdd(ev.frac[1], ev.frac[2]))) =>
    \A k \in 1..Len(ev.events) :
      /\ ev.events[k].start < ev.events[k].peak
      /\ ev.events[k].peak < ev.events[k].end
      /\ UcEnvAt(ev.events, ev.frac, ev.total_len, ev.events[k].peak) = FromInt(1)

\* ---------------------------------------------------------------------------
\* The peaks of the beats of simulateMultibeat.
\* ---------------------------------------------------------------------------

RAbs(x) == IF RLt(x, Zero) THEN RSub(Zero, x) ELSE x

\* the largest magnitude of a waveform of rationals, 0 for the empty one
RPeak(y) == RMaxOf([k \in 1..Len(y) |-> RAbs(y[k])], Len(y))

MaxTimedBeats == 3

BeatRates == {8, 1000, 4000}

\* beatLengthSec, in seconds
BeatLengths == {Rat(1, 2), FromInt(1), Rat(6, 5)}

\* t_s1_ratio and t_s2_ratio, fractions of the beat
BeatRatios == {Zero, Rat(12, 100), Rat(45, 100), Rat(9, 10)}

InitBeats ==
  /\ rs = Idle
  /\ ev = Idle
  /\ ck = Idle
  /\ snr = Idle
  /\ gen = Idle
  /\ rg = Idle
  /\ hp = Idle
  /\ fl = Idle
  /\ \E numBeats \in 0..MaxTimedBeats, fs \in BeatRates, len \in BeatLengths :
     \E r1 \in BeatRatios, r2 \in BeatRatios :
       /\ RLt(r1, r2)
       /\ nm = [pc |-> "loop", numBeats |-> numBeats, fs |-> fs, beatLengthSec |-> len,
                t_s1_ratio |-> r1, t_s2_ratio |-> r2, b |-> 0, beats |-> <<>>,
                s1Times |-> <<>>, s2Times |-> <<>>, pcg_len |-> 0]

\* the times pushed without the offset of the beat
BeatOffsetNone(b, beatLengthSec) == Zero

\* `b * beatLengthSec`
BeatOffset(b, beatLengthSec) == RMul(FromInt(b), beatLengthSec)

\* `const n = Math.floor(duration * fs);`
BeatSamples(duration, fs) == RFloor(RMul(duration, FromInt(fs)))

\* one iteration of `for (let b = 0; b < numBeats; b++)`: the beat of
\* simulateSingleBeat, of n samples with tS1 = t_s1_ratio * duration and
\* tS2 = t_s2_ratio * duration, is pushed with its two times
MultibeatBeat ==
  /\ nm.pc = "loop" /\ nm.b < nm.numBeats
  /\ LET tS1 == RMul(nm.t_s1_ratio, nm.beatLengthSec)
         tS2 == RMul(nm.t_s2_ratio, nm.beatLengthSec)
     IN nm' = [nm EXCEPT
                 !.b = nm.b + 1,
                 !.beats = Append(nm.beats, BeatSamples(nm.beatLengthSec, nm.fs)),
                 !.s1Times = Append(nm.s1Times, RAdd(tS1, BeatOffset(nm.b, nm.beatLengthSec))),
                 !.s2Times = Append(nm.s2Times, RAdd(tS2, BeatOffset(nm.b, nm.beatLengthSec)))]
  /\ UNCHANGED <<rs, ev, ck, snr, gen, rg, hp, fl>>

RECURSIVE SumLens(_, _)
SumLens(beats, k) == IF k = 0 THEN 0 ELSE SumLens(beats, k - 1) + beats[k]

\* `const pcg = beats.flat();` and the return
MultibeatReturn ==
  /\ nm.pc = "loop" /\ nm.b >= nm.numBeats
  /\ nm' = [nm EXCEPT !.pc = "returned", !.pcg_len = SumLens(nm.beats, Len(nm.beats))]
  /\ UNCHANGED <<rs, ev, ck, snr, gen, rg, hp, fl>>

NextBeats == MultibeatBeat \/ MultibeatReturn

SpecBeats == InitBeats /\ [][NextBeats]_vars

InBeat(t, b, beatLengthSec) ==
  /\ RGeq(t, RMul(FromInt(b), beatLengthSec))
  /\ RLt(t, RMul(FromInt(b + 1), beatLengthSec))

=============================================================================
